---- MODULE Spec2Model ----
(***************************************************************************)
(* A model of mashru3's workspace engine: the cooperative softlock         *)
(* (filesystem.py), the metadata store and the workspace lifecycle         *)
(* (workspace.py, cli.py).                                                 *)
(*                                                                         *)
(* Concurrency in mashru3 comes from independent processes that share a    *)
(* directory, so the atomic steps of the model are system calls.           *)
(***************************************************************************)
EXTENDS Integers, Sequences, FiniteSets, TLC

(***************************************************************************)
(* Bounds of the model.                                                    *)
(***************************************************************************)
NumActors == 3      \* callers of softlock on one lock path
NumTampered == 2    \* callers that run while the lock is tampered with
MaxRenames == 1     \* times the lock's parent directory is renamed away
NumHandles == 2     \* processes holding a handle on one workspace
MaxEdits == 1       \* mutator calls on a handle's metadata between load and close

Actors == 1..NumActors
TamperedActors == 1..NumTampered

\* Paths: 0 is dirname(path) as the callers spell it, k > 0 is the name the
\* directory was renamed to by the k-th rename.
Paths == 0..MaxRenames
OrigPath == Paths \ (1..MaxRenames)
\* Directory objects (inodes).  One exists per rename plus the current one.
DirObjs == 1..(MaxRenames + 1)

\* Values outside Actors and DirObjs: no lock file (no creator), and no
\* directory bound at a path (no descriptor).
Nobody == (CHOOSE a \in Actors : \A b \in Actors : a <= b) - 1
NoDir == (CHOOSE d \in DirObjs : \A e \in DirObjs : d <= e) - 1

VARIABLES
    pathDir,    \* pathDir[k]: directory object bound at path k, or NoDir
    lockFile,   \* lockFile[d]: creator of the file basename(path) in d, or Nobody
    lpc,        \* lpc[p]: position of caller p inside softlock
    dirfd,      \* dirfd[p]: directory object p's descriptor refers to (kept
                \* after the call for reference)
    lres,       \* lres[p]: how p's last softlock call ended
    sawDead,    \* sawDead[p]: a holder had been killed when p last tried to create
    sawTamper   \* sawTamper[p]: p's lock file was gone, or its directory renamed
                \* away, when p last released

lockVars == <<pathDir, lockFile, lpc, dirfd, lres, sawDead, sawTamper>>

\* The metadata store (one workspace directory).
VARIABLES
    metaFile,   \* .config/workspace.yaml: st is "yaml" (a YAML mapping, lines
                \* its key/value lines), "absent", "nodir" (no workspace
                \* directory), "nostat" (.config not searchable), "unreadable"
                \* (no read permission), "malformed" (no YAML) or "nonmap"
                \* (YAML, but no mapping: empty, a scalar, a list)
    tmpFile,    \* .config/workspace.tmp
    metaLock,   \* creator of .config/workspace.lock, or Nobody
    hpc,        \* hpc[h]: position of handle h
    doc,        \* doc[h]: ws.metadata.data
    modified,   \* modified[h]: ws.metadata.modified
    hres,       \* hres[h]: how h's last open or close ended
    touched,    \* touched[h]: a mutator was called on doc[h] since load or flush
    edits,      \* edits[h]: mutator calls since load
    openedSt    \* openedSt[h]: metaFile.st when h was last opened

metaVars == <<metaFile, tmpFile, metaLock, hpc, doc, modified, hres, touched,
              edits, openedSt>>

\* Workspace creation, copy and import (a destination directory).
VARIABLES
    dstDir,     \* the destination directory of create, copy and import exists
    dstMeta,    \* its .config/workspace.yaml
    lifeOp,     \* the lifecycle operation that ran
    lifeRes     \* how it ended

lifeVars == <<dstDir, dstMeta, lifeOp, lifeRes>>

\* Profile synchronisation (ensureGuix, ensureProfile) on one workspace.
\* Modification times are points of a clock, 0 for a file that is absent.
VARIABLES
    profLock,   \* creator of .cache/mashru3.ensureProfile.lock, or Nobody
    guixLock,   \* creator of .cache/mashru3.ensureGuix.lock, or Nobody
    clock,      \* the time of the last write to the workspace
    guixEx,     \* .config/guix/current/bin/guix exists
    guixM,      \* mtime of the symlink .config/guix/current
    chanM,      \* mtime of .config/guix/channels.scm
    manM,       \* mtime of .config/guix/manifest.scm
    profEx,     \* .guix-profile exists
    profM,      \* mtime of the symlink .guix-profile
    havePk,     \* the mandatory packages are installed in the profile
    settled,    \* a rebuild has succeeded and no input has changed since
    pinned,     \* an ensureGuix has completed and channels.scm is as it left it
    sop,        \* sop[p]: the operation process p called
    spc,        \* spc[p]: its position
    sres,       \* sres[p]: how it ended
    ranCmd,     \* ranCmd[p]: it invoked a package-manager command
    failedCmd,  \* failedCmd[p]: a command it ran exited outside its permitted codes
    pulled,     \* pulled[p]: it invoked guix pull
    rebuilt     \* rebuilt[p]: it invoked the rebuild (guix package)

syncFiles == <<clock, guixEx, guixM, chanM, manM, profEx, profM, havePk,
               settled, pinned>>

syncProcs == <<sop, spc, sres, ranCmd, failedCmd, pulled, rebuilt>>

syncVars == <<profLock, guixLock, syncFiles, syncProcs>>

\* Classifying the failure of a rebuild (decodeFailure).
VARIABLES
    errIn,      \* the stderr of the failed command, as lines
    errOut      \* what decodeFailure raised

decodeVars == <<errIn, errOut>>

\* An external subprocess and the caller waiting for it (util.run, dorun).
VARIABLES
    rpath,      \* the code that started the subprocess: "run" or "dorun"
    rpc,        \* the caller's position
    child,      \* the subprocess: "none", "running" or "exited"
    obeysTerm,  \* the subprocess exits when it gets SIGTERM
    obeysInt,   \* the subprocess gets the caller's SIGINT too, and exits
    termSent,   \* the caller has sent SIGTERM to the running subprocess
    killSent,   \* the caller has sent SIGKILL to the running subprocess
    ticks,      \* time spent in the caller's current bounded wait
    interrupted,\* the caller was interrupted while the subprocess ran
    rres        \* what the caller surfaced

runVars == <<rpath, rpc, child, obeysTerm, obeysInt, termSent, killSent, ticks,
             interrupted, rres>>

\* Creating a workspace step by step (Workspace.create, docreate).
VARIABLES
    crOp,       \* "create" (workspace.py) or "docreate" (cli.py)
    crPc,       \* the position of the creation
    crDirEx,    \* the workspace directory exists
    crSkel,     \* the skeleton directories there are: "none", "home", "etc", "both"
    crFiles,    \* what has been written into the workspace directory
    crGranted,  \* the owner's default-inheriting recursive grant is applied
    crSync,     \* the profile synchronisation: "no", "started", "ok", "failed"
    crRoots,    \* the garbage-collection roots are registered
    crRes       \* how the creation ended

createVars == <<crOp, crPc, crDirEx, crSkel, crFiles, crGranted, crSync, crRoots,
                crRes>>

\* Moving an open workspace (Workspace.move).
VARIABLES
    mvPlace,    \* mvPlace[x]: what is at path x: "none", "empty", "full" or "ws"
    mvDir,      \* the handle's directory
    mvRooted,   \* the paths garbage-collection roots are registered for
    mvPending,  \* the handle's metadata is modified
    mvFlushed,  \* the workspace's metadata file holds the handle's document
    mvStray,    \* paths where a flush made files outside the workspace
    mvPc,       \* "idle", "open" or "closed"
    mvMoves,    \* the number of moves tried
    mvDest,     \* the destination of the last move
    mvRes       \* how the last move ended

moveVars == <<mvPlace, mvDir, mvRooted, mvPending, mvFlushed, mvStray, mvPc,
              mvMoves, mvDest, mvRes>>

\* Access control lists (setPermissions, getPermissions).
VARIABLES
    aclNfs,     \* the tree is on an NFS mount
    acl,        \* acl[n][e]: the rights of entry e in the access ACL of node n
    dacl,       \* dacl[n][e]: the same in the default ACL of directory n
    aclOps,     \* the number of calls made
    aclOp       \* the last call and how it ended

aclVars == <<aclNfs, acl, dacl, aclOps, aclOp>>

\* Sharing a workspace (doshare).
VARIABLES
    shPc,       \* the position of doshare
    shRemove,   \* args.remove
    shT,        \* the index of the target being worked on
    shA,        \* the index of the ancestor directory being worked on
    shApplied,  \* the <<target, ACL>> pairs set on the workspace directory
    shAncFailed,\* the <<target, ancestor>> pairs setPermissions has failed on
    shWsFailed, \* setPermissions has failed on the workspace directory
    shRes       \* what doshare returned or raised

shareVars == <<shPc, shRemove, shT, shA, shApplied, shAncFailed, shWsFailed, shRes>>

\* Choosing the directory of a new workspace (nameToDir, nameToPath).
VARIABLES
    nmIn,       \* the display name, a sequence of characters
    nmOut,      \* what nameToDir returned for it
    nmCalled,   \* nameToDir has been called
    npSuggested,\* what is at suggestedDir: "absent", "file" or "dir"
    npTaken,    \* the extensions ext for which suggestedDir/(subdir + ext) exists
    npExt,      \* the extension of the loop of nameToPath
    npPc,       \* the position of nameToPath
    npRes       \* what nameToPath returned or raised

nameVars == <<nmIn, nmOut, nmCalled, npSuggested, npTaken, npExt, npPc, npRes>>

\* The working directory of the process (Workspace.chdir).
VARIABLES
    chCwd,      \* the current working directory
    chGone,     \* the directories that were removed
    chStack,    \* oldWorkingDir of every chdir scope that is open
    chOp,       \* the operation that runs
    chI,        \* how many steps of it were taken
    chBefore,   \* the working directory when the operation was called
    chPc,       \* "idle", "running" or "done"
    chRes,      \* what the operation returned or raised
    chCalls     \* the operations called so far

chdirVars == <<chCwd, chGone, chStack, chOp, chI, chBefore, chPc, chRes, chCalls>>

\* Identity tokens (uintToQuint).
VARIABLES
    qLen,       \* the number of quints asked for
    qV, qW,     \* two integers
    qOutV,      \* what uintToQuint returned or raised for qV
    qOutW,      \* and for qW
    qCalled     \* uintToQuint has been called

quintVars == <<qLen, qV, qW, qOutV, qOutW, qCalled>>

\* Editing the package list of a manifest (modifyManifest).
VARIABLES
    mfIn,       \* the text of the manifest
    mfSpecs,    \* the specs
    mfOut,      \* what modifyManifest returned or raised
    mfCalled    \* modifyManifest has been called

manifestVars == <<mfIn, mfSpecs, mfOut, mfCalled>>

\* Installing and removing packages (doPackageModify).
VARIABLES
    pmPc,       \* the position of doPackageModify
    pmFile,     \* the text of manifest.scm
    pmRead,     \* the text doPackageModify has read
    pmFailure,  \* how the first ensureProfile failed
    pmBuilds,   \* the text of manifest.scm at every call of ensureProfile
    pmRes,      \* what doPackageModify returned or raised
    pmOthers    \* the edits of manifest.scm by other processes

modifyVars == <<pmPc, pmFile, pmRead, pmFailure, pmBuilds, pmRes, pmOthers>>

\* A rebuild of the profile taken step by step (ensureProfile), with the
\* content of the manifest.
VARIABLES
    fClock,     \* the time
    fManV,      \* the version of the text of manifest.scm
    fManM,      \* its mtime
    fProfV,     \* the version of the manifest the profile was built from, 0 for none
    fProfM,     \* the mtime of the symlink .guix-profile
    fPc,        \* the position of the ensureProfile call
    fReadV,     \* the version of the manifest guix package has read
    fRes,       \* how the last ensureProfile call ended
    fCalls      \* the ensureProfile calls so far

freshVars == <<fClock, fManV, fManM, fProfV, fProfM, fPc, fReadV, fRes, fCalls>>

\* Concurrent creations under one parent directory (docreate).
VARIABLES
    rcSkel,     \* a skeleton directory exists
    rcTaken,    \* the extensions ext for which suggestedDir/(subdir + ext) exists
    rcPc,       \* rcPc[c]: the position of creation c
    rcExt,      \* rcExt[c]: the extension of its candidate, then of its directory
    rcInit,     \* rcInit[c]: it has initialised its directory
    rcRes       \* rcRes[c]: how it ended

raceVars == <<rcSkel, rcTaken, rcPc, rcExt, rcInit, rcRes>>

\* What the steps of one part of the engine leave alone.
restOfLock ==
    <<metaVars, lifeVars, syncVars, decodeVars, runVars, createVars, moveVars,
      aclVars, shareVars, nameVars, chdirVars,
      quintVars,
      manifestVars,
      modifyVars,
      freshVars,
      raceVars>>
restOfMeta ==
    <<lockVars, lifeVars, syncVars, decodeVars, runVars, createVars, moveVars,
      aclVars, shareVars, nameVars, chdirVars,
      quintVars,
      manifestVars,
      modifyVars,
      freshVars,
      raceVars>>
restOfLife ==
    <<lockVars, metaVars, syncVars, decodeVars, runVars, createVars, moveVars,
      aclVars, shareVars, nameVars, chdirVars,
      quintVars,
      manifestVars,
      modifyVars,
      freshVars,
      raceVars>>
restOfSync ==
    <<lockVars, metaVars, lifeVars, decodeVars, runVars, createVars, moveVars,
      aclVars, shareVars, nameVars, chdirVars,
      quintVars,
      manifestVars,
      modifyVars,
      freshVars,
      raceVars>>
restOfDecode ==
    <<lockVars, metaVars, lifeVars, syncVars, runVars, createVars, moveVars,
      aclVars, shareVars, nameVars, chdirVars,
      quintVars,
      manifestVars,
      modifyVars,
      freshVars,
      raceVars>>
restOfRun ==
    <<lockVars, metaVars, lifeVars, syncVars, decodeVars, createVars, moveVars,
      aclVars, shareVars, nameVars, chdirVars,
      quintVars,
      manifestVars,
      modifyVars,
      freshVars,
      raceVars>>
restOfCreate ==
    <<lockVars, metaVars, lifeVars, syncVars, decodeVars, runVars, moveVars,
      aclVars, shareVars, nameVars, chdirVars,
      quintVars,
      manifestVars,
      modifyVars,
      freshVars,
      raceVars>>
restOfMove ==
    <<lockVars, metaVars, lifeVars, syncVars, decodeVars, runVars, createVars,
      aclVars, shareVars, nameVars, chdirVars,
      quintVars,
      manifestVars,
      modifyVars,
      freshVars,
      raceVars>>
restOfAcl ==
    <<lockVars, metaVars, lifeVars, syncVars, decodeVars, runVars, createVars,
      moveVars, shareVars, nameVars, chdirVars,
      quintVars,
      manifestVars,
      modifyVars,
      freshVars,
      raceVars>>
restOfShare ==
    <<lockVars, metaVars, lifeVars, syncVars, decodeVars, runVars, createVars,
      moveVars, aclVars, nameVars, chdirVars,
      quintVars,
      manifestVars,
      modifyVars,
      freshVars,
      raceVars>>
restOfName ==
    <<lockVars, metaVars, lifeVars, syncVars, decodeVars, runVars, createVars,
      moveVars, aclVars, shareVars, chdirVars,
      quintVars,
      manifestVars,
      modifyVars,
      freshVars,
      raceVars>>
restOfChdir ==
    <<lockVars, metaVars, lifeVars, syncVars, decodeVars, runVars, createVars,
      moveVars, aclVars, shareVars, nameVars,
      quintVars,
      manifestVars,
      modifyVars,
      freshVars,
      raceVars>>
restOfQuint ==
    <<lockVars, metaVars, lifeVars, syncVars, decodeVars, runVars,
      createVars, moveVars, aclVars, shareVars, nameVars, chdirVars,
      manifestVars,
      modifyVars,
      freshVars,
      raceVars>>
restOfManifest ==
    <<lockVars, metaVars, lifeVars, syncVars, decodeVars, runVars,
      createVars, moveVars, aclVars, shareVars, nameVars, chdirVars,
      quintVars,
      modifyVars,
      freshVars,
      raceVars>>
restOfModify ==
    <<lockVars, metaVars, lifeVars, syncVars, decodeVars, runVars,
      createVars, moveVars, aclVars, shareVars, nameVars, chdirVars,
      quintVars, manifestVars,
      freshVars,
      raceVars>>
restOfFresh ==
    <<lockVars, metaVars, lifeVars, syncVars, decodeVars, runVars,
      createVars, moveVars, aclVars, shareVars, nameVars, chdirVars,
      quintVars, manifestVars, modifyVars,
      raceVars>>
restOfRace ==
    <<lockVars, metaVars, lifeVars, syncVars, decodeVars, runVars,
      createVars, moveVars, aclVars, shareVars, nameVars, chdirVars,
      quintVars, manifestVars, modifyVars, freshVars>>

ThePath == CHOOSE k \in OrigPath : TRUE

LockResults == {"none", "Busy", "returned", "raised",
                "open:FileNotFoundError", "release:FileNotFoundError"}

TypeLock ==
    /\ pathDir \in [Paths -> DirObjs \cup {NoDir}]
    /\ lockFile \in [DirObjs -> Actors \cup {Nobody}]
    /\ lpc \in [Actors -> {"idle", "opendir", "create", "held", "dead"}]
    /\ dirfd \in [Actors -> DirObjs \cup {NoDir}]
    /\ lres \in [Actors -> LockResults]
    /\ sawDead \in [Actors -> BOOLEAN]
    /\ sawTamper \in [Actors -> BOOLEAN]

InitLock ==
    /\ pathDir = [k \in Paths |-> NoDir]
    /\ lockFile = [d \in DirObjs |-> Nobody]
    /\ lpc = [p \in Actors |-> "idle"]
    /\ dirfd = [p \in Actors |-> NoDir]
    /\ lres = [p \in Actors |-> "none"]
    /\ sawDead = [p \in Actors |-> FALSE]
    /\ sawTamper = [p \in Actors |-> FALSE]

\* A directory object no path is bound to.
FreeDir == CHOOSE d \in DirObjs : \A k \in Paths : pathDir[k] # d

\* os.open (basename, O_WRONLY | O_CREAT | O_EXCL, dir_fd=dirfd): atomic
\* create-or-fail.  existing is the creator of the file found, or Nobody.
OpenCreat_noExcl(existing, who) ==
    [exists |-> FALSE, file |-> IF existing = Nobody THEN who ELSE existing]

OpenCreatExcl(existing, who) ==
    IF existing # Nobody
    THEN [exists |-> TRUE, file |-> existing]
    ELSE [exists |-> FALSE, file |-> who]

\* os.unlink (basename, dir_fd=dirfd) inside "except FileNotFoundError: pass":
\* the name is removed whoever created the file; a missing name is ignored.
Unlink_uncaught(existing) ==
    [file |-> Nobody, raises |-> existing = Nobody]

UnlinkIgnoreMissing(existing) ==
    [file |-> Nobody, raises |-> FALSE]

\* os.makedirs (dirname, exist_ok=True)
softlock_makedirs(p) ==
    /\ lpc[p] = "idle"
    /\ pathDir' = IF pathDir[ThePath] = NoDir
                  THEN [pathDir EXCEPT ![ThePath] = FreeDir]
                  ELSE pathDir
    /\ lpc' = [lpc EXCEPT ![p] = "opendir"]
    /\ lres' = [lres EXCEPT ![p] = "none"]
    /\ UNCHANGED <<lockFile, dirfd, sawDead, sawTamper>>
    /\ UNCHANGED restOfLock

\* dirfd = os.open (dirname, flags=0); only FileExistsError is caught, so a
\* directory that vanished since makedirs ends the call with FileNotFoundError.
softlock_opendir(p) ==
    /\ lpc[p] = "opendir"
    /\ IF pathDir[ThePath] = NoDir
       THEN /\ lpc' = [lpc EXCEPT ![p] = "idle"]
            /\ lres' = [lres EXCEPT ![p] = "open:FileNotFoundError"]
            /\ UNCHANGED dirfd
       ELSE /\ lpc' = [lpc EXCEPT ![p] = "create"]
            /\ dirfd' = [dirfd EXCEPT ![p] = pathDir[ThePath]]
            /\ UNCHANGED lres
    /\ UNCHANGED <<pathDir, lockFile, sawDead, sawTamper>>
    /\ UNCHANGED restOfLock

\* fd = os.open (basename, O_CREAT | O_EXCL, dir_fd=dirfd); FileExistsError
\* becomes Busy, raised at once.
softlock_create(p) ==
    /\ lpc[p] = "create"
    /\ LET r == OpenCreatExcl(lockFile[dirfd[p]], p) IN
       /\ lockFile' = [lockFile EXCEPT ![dirfd[p]] = r.file]
       /\ IF r.exists
          THEN /\ lpc' = [lpc EXCEPT ![p] = "idle"]
               /\ lres' = [lres EXCEPT ![p] = "Busy"]
          ELSE /\ lpc' = [lpc EXCEPT ![p] = "held"]
               /\ UNCHANGED lres
    /\ sawDead' = [sawDead EXCEPT ![p] = \E q \in Actors : lpc[q] = "dead"]
    /\ UNCHANGED <<pathDir, dirfd, sawTamper>>
    /\ UNCHANGED restOfLock

\* The finally clause: close (fd); unlink (basename, dir_fd=dirfd); close (dirfd).
\* how is the way the guarded block ended.
softlock_finally(p, how) ==
    /\ lpc[p] = "held"
    /\ LET r == UnlinkIgnoreMissing(lockFile[dirfd[p]]) IN
       /\ lockFile' = [lockFile EXCEPT ![dirfd[p]] = r.file]
       /\ lres' = [lres EXCEPT ![p] =
                     IF r.raises THEN "release:FileNotFoundError" ELSE how]
    /\ lpc' = [lpc EXCEPT ![p] = "idle"]
    /\ sawTamper' = [sawTamper EXCEPT ![p] =
                        lockFile[dirfd[p]] # p \/ pathDir[ThePath] # dirfd[p]]
    /\ UNCHANGED <<pathDir, dirfd, sawDead>>
    /\ UNCHANGED restOfLock

\* The guarded block returns.
block_returns(p) == softlock_finally(p, "returned")

block_raises_noFinally(p) ==
    /\ lpc[p] = "held"
    /\ lpc' = [lpc EXCEPT ![p] = "idle"]
    /\ lres' = [lres EXCEPT ![p] = "raised"]
    /\ UNCHANGED <<pathDir, lockFile, dirfd, sawDead, sawTamper>>
    /\ UNCHANGED restOfLock

\* The guarded block raises; the exception passes through the finally clause.
block_raises(p) == softlock_finally(p, "raised")

\* The holding process is killed (SIGKILL, power loss): no finally clause
\* runs, the kernel closes its descriptors, the lock file stays.
holder_killed(p) ==
    /\ lpc[p] = "held"
    /\ lpc' = [lpc EXCEPT ![p] = "dead"]
    /\ UNCHANGED <<pathDir, lockFile, dirfd, lres, sawDead, sawTamper>>
    /\ UNCHANGED restOfLock

\* Another actor deletes the lock file (test_softlock_unlink).
lockfile_unlinked ==
    /\ pathDir[ThePath] # NoDir
    /\ lockFile[pathDir[ThePath]] # Nobody
    /\ lockFile' = [lockFile EXCEPT ![pathDir[ThePath]] = Nobody]
    /\ UNCHANGED <<pathDir, lpc, dirfd, lres, sawDead, sawTamper>>
    /\ UNCHANGED restOfLock

\* Another actor renames the lock's parent directory (test_softlock_movedir).
parent_renamed ==
    /\ pathDir[ThePath] # NoDir
    /\ \E k \in Paths \ OrigPath :
          /\ pathDir[k] = NoDir
          /\ \A j \in Paths \ OrigPath : j < k => pathDir[j] # NoDir
          /\ pathDir' = [pathDir EXCEPT ![k] = pathDir[ThePath], ![ThePath] = NoDir]
    /\ UNCHANGED <<lockFile, lpc, dirfd, lres, sawDead, sawTamper>>
    /\ UNCHANGED restOfLock


(***************************************************************************)
(* The metadata store: ModificationAwareDict, Workspace.open,              *)
(* Workspace.close and Workspace._writeMetadata (workspace.py).            *)
(***************************************************************************)
Handles == 1..NumHandles

\* Metadata keys.  created stands for the four keys besides _id that
\* resetMetadata sets (version, created, modified, creator): they are set,
\* overlaid and written together.  name is a key the user sets.
Keys == {"_id", "created", "name"}
\* yaml.dump sorts the keys of a mapping.
KeyOrder == <<"_id", "created", "name">>

Id(n) == "id" \o ToString(n)
IdNumbers == 1..(NumHandles + 4)
\* The identity the workspace was created with.
CreatedId == Id(CHOOSE n \in IdNumbers : \A m \in IdNumbers : n <= m)

EmptyDoc == [k \in {} |-> ""]
NoLines == <<>>
AbsentFile == [st |-> "absent", lines |-> NoLines]
YamlFile(lines) == [st |-> "yaml", lines |-> lines]


FileStates == {"yaml", "absent", "nodir", "nostat", "unreadable", "malformed", "nonmap"}

\* Documents as mappings from some of the keys to strings.
Update(d, other) ==
    [k \in (DOMAIN d) \cup (DOMAIN other) |->
        IF k \in DOMAIN other THEN other[k] ELSE d[k]]

Without(d, k) == [j \in (DOMAIN d) \ {k} |-> d[j]]

Single(k, v) == [j \in {k} |-> v]

\* yaml.dump (mapping, fd): one "key: value" line per key, keys sorted.
Serialize(d) ==
    LET ks == SelectSeq(KeyOrder, LAMBDA k : k \in DOMAIN d)
    IN  [i \in 1..Len(ks) |-> <<ks[i], d[ks[i]]>>]

\* yaml.safe_load of the lines of a mapping; a later line for a key wins.
Parse(lines) ==
    [k \in {lines[i][1] : i \in 1..Len(lines)} |->
        lines[CHOOSE i \in 1..Len(lines) :
                 /\ lines[i][1] = k
                 /\ \A j \in 1..Len(lines) : lines[j][1] = k => j <= i][2]]

\* Identities found in a document, and those in use anywhere.
IdsOf(d) == IF "_id" \in DOMAIN d THEN {d["_id"]} ELSE {}


UsedIds ==
    UNION ({IdsOf(doc[h]) : h \in Handles}
           \cup {IdsOf(Parse(metaFile.lines)), IdsOf(Parse(tmpFile.lines)),
                 IdsOf(Parse(dstMeta.lines)), {CreatedId}})

\* Workspace.randomId: uintToQuint (secrets.randbelow (2**64), 4), taken to
\* never repeat an identity in use.
randomId ==
    Id(CHOOSE n \in IdNumbers :
          /\ Id(n) \notin UsedIds
          /\ \A m \in IdNumbers : Id(m) \notin UsedIds => n <= m)

\* Workspace.resetMetadata: the defaults of a new handle.
resetMetadata(id) ==
    [k \in {"_id", "created"} |-> IF k = "_id" THEN id ELSE "now"]

\* Workspace.open, up to the yield: how it ends for a metadata file.
OpenOutcome_allInvalid(f) ==
    IF f.st = "yaml" THEN "handle" ELSE "InvalidWorkspace"

OpenOutcome(f) ==
    CASE f.st = "nodir" -> "FileNotFoundError"      \* os.open in __init__
      [] f.st = "nostat" -> "InvalidWorkspace"      \* exists () raises PermissionError
      [] f.st = "absent" -> "InvalidWorkspace"      \* Lacks required files
      [] f.st = "unreadable" -> "PermissionError"   \* open (ws.metapath) raises
      [] f.st = "malformed" -> "InvalidWorkspace"   \* yaml.YAMLError
      [] f.st = "nonmap" -> "TypeError"             \* metadata.update (no mapping)
      [] OTHER -> "handle"

\* The document of a handle just opened: the defaults overlaid by the file.
LoadedDoc_defaultsOnly(f, id) == resetMetadata(id)

LoadedDoc(f, id) == Update(resetMetadata(id), Parse(f.lines))

\* ws.metadata.modified after open: update () set it, open clears it.
ModifiedAfterLoad_notCleared == TRUE

ModifiedAfterLoad == FALSE

TypeMeta ==
    /\ metaFile.st \in FileStates
    /\ tmpFile.st \in {"yaml", "absent"}
    /\ metaLock \in Handles \cup {Nobody}
    /\ hpc \in [Handles -> {"none", "open", "wm_tmp", "wm_dump", "wm_unlock",
                            "closed", "dead"}]
    /\ \A h \in Handles : DOMAIN doc[h] \subseteq Keys
    /\ modified \in [Handles -> BOOLEAN]
    /\ touched \in [Handles -> BOOLEAN]
    /\ edits \in [Handles -> 0..MaxEdits]
    /\ openedSt \in [Handles -> FileStates \cup {"none"}]

\* A workspace as creation leaves it: the metadata file holds the defaults
\* with the identity assigned at creation, under a name or without one.
CreatedDocs ==
    {Update([k \in {"_id", "created"} |-> IF k = "_id" THEN CreatedId ELSE "t0"],
            extra) : extra \in {EmptyDoc, Single("name", "n0")}}

InitFiles ==
    {YamlFile(Serialize(d)) : d \in CreatedDocs}
    \cup {[st |-> x, lines |-> NoLines] : x \in FileStates \ {"yaml"}}

HandlesIdle ==
    /\ tmpFile = AbsentFile
    /\ metaLock = Nobody
    /\ hpc = [h \in Handles |-> "none"]
    /\ doc = [h \in Handles |-> EmptyDoc]
    /\ modified = [h \in Handles |-> FALSE]
    /\ hres = [h \in Handles |-> "none"]
    /\ touched = [h \in Handles |-> FALSE]
    /\ edits = [h \in Handles |-> 0]
    /\ openedSt = [h \in Handles |-> "none"]

MetaIdle == metaFile = AbsentFile /\ HandlesIdle

InitMeta == metaFile \in InitFiles /\ HandlesIdle

LifeIdle ==
    /\ dstDir = FALSE
    /\ dstMeta = AbsentFile
    /\ lifeOp = "none"
    /\ lifeRes = "none"

\* Workspace.open (d): ws = cls (d); check and load the metadata file; yield.
Workspace_open(h) ==
    /\ hpc[h] \in {"none", "closed"}
    /\ LET out == OpenOutcome(metaFile) IN
       /\ hres' = [hres EXCEPT ![h] = out]
       /\ IF out = "handle"
          THEN /\ hpc' = [hpc EXCEPT ![h] = "open"]
               /\ doc' = [doc EXCEPT ![h] = LoadedDoc(metaFile, randomId)]
               /\ modified' = [modified EXCEPT ![h] = ModifiedAfterLoad]
          ELSE /\ hpc' = [hpc EXCEPT ![h] = "closed"]
               /\ doc' = [doc EXCEPT ![h] = EmptyDoc]
               /\ modified' = [modified EXCEPT ![h] = FALSE]
    /\ touched' = [touched EXCEPT ![h] = FALSE]
    /\ edits' = [edits EXCEPT ![h] = 0]
    /\ openedSt' = [openedSt EXCEPT ![h] = metaFile.st]
    /\ UNCHANGED <<metaFile, tmpFile, metaLock>>
    /\ UNCHANGED restOfMeta

\* A mutator of ModificationAwareDict: modified is set before the change is
\* tried, so also when the key is missing (KeyError).
Mutate(h, newdoc) ==
    /\ hpc[h] = "open"
    /\ edits[h] < MaxEdits
    /\ doc' = [doc EXCEPT ![h] = newdoc]
    /\ modified' = [modified EXCEPT ![h] = TRUE]
    /\ touched' = [touched EXCEPT ![h] = TRUE]
    /\ edits' = [edits EXCEPT ![h] = edits[h] + 1]
    /\ UNCHANGED <<metaFile, tmpFile, metaLock, hpc, hres, openedSt>>
    /\ UNCHANGED restOfMeta

\* The keys the holders of a handle change, and the value they set.
UserKeys == {"name"}
NewValue(k) == "n1"

\* ModificationAwareDict.__setitem__, __delitem__, update and pop.
md_setitem(h, k) == Mutate(h, Update(doc[h], Single(k, NewValue(k))))

md_delitem(h, k) == Mutate(h, Without(doc[h], k))

md_update(h, k) == Mutate(h, Update(doc[h], Single(k, NewValue(k))))

md_pop(h, k) == Mutate(h, Without(doc[h], k))

\* Workspace.close -> _writeMetadata: nothing unless modified; else chdir and
\* softlock (.config/workspace.lock), Busy raised at once.  A handle closed
\* without a write, or flushed, is dropped by its with block.
\* close () is called on a handle that is open, or again on a handle object
\* whose last close flushed, met Busy or raised.
Closable(h) ==
    \/ hpc[h] = "open"
    \/ hpc[h] = "closed" /\ hres[h] \in {"flushed", "Busy", "raised"}

\* The lock file the flush tries to create: .config/workspace.lock, which is
\* not a lock file of the profile synchronisation (.cache/mashru3.*.lock).
MetaLockFound_syncScope == IF profLock # Nobody THEN profLock ELSE metaLock

MetaLockFound == metaLock

WriteUnlessClean_always(h) == TRUE

WriteUnlessClean(h) == modified[h]

Workspace_close(h) ==
    /\ Closable(h)
    /\ IF ~WriteUnlessClean(h)
       THEN /\ hpc' = [hpc EXCEPT ![h] = "closed"]
            /\ hres' = [hres EXCEPT ![h] = "clean"]
            /\ doc' = [doc EXCEPT ![h] = EmptyDoc]
            /\ UNCHANGED metaLock
       ELSE LET r == OpenCreatExcl(MetaLockFound, h) IN
            /\ metaLock' = r.file
            /\ IF r.exists
               THEN /\ hpc' = [hpc EXCEPT ![h] = "closed"]
                    /\ hres' = [hres EXCEPT ![h] = "Busy"]
               ELSE /\ hpc' = [hpc EXCEPT ![h] = "wm_tmp"]
                    /\ UNCHANGED hres
            /\ UNCHANGED doc
    /\ UNCHANGED <<metaFile, tmpFile, modified, touched, edits, openedSt>>
    /\ UNCHANGED restOfMeta

\* with open (tmpPath, 'w') as fd: the temporary file is created or truncated.
wm_open_tmp(h) ==
    /\ hpc[h] = "wm_tmp"
    /\ tmpFile' = YamlFile(NoLines)
    /\ hpc' = [hpc EXCEPT ![h] = "wm_dump"]
    /\ UNCHANGED <<metaFile, metaLock, doc, modified, hres, touched, edits,
                   openedSt>>
    /\ UNCHANGED restOfMeta

\* yaml.dump (self.metadata.data, fd): the lines reach the file one by one.
DumpTarget_canonical == "meta"

DumpTarget == "tmp"

wm_dump(h) ==
    /\ hpc[h] = "wm_dump"
    /\ LET all == Serialize(doc[h])
           sofar == IF DumpTarget = "tmp" THEN tmpFile.lines
                    ELSE IF /\ Len(metaFile.lines) <= Len(all)
                            /\ metaFile.lines = SubSeq(all, 1, Len(metaFile.lines))
                         THEN metaFile.lines ELSE NoLines
       IN /\ Len(sofar) < Len(all)
          /\ IF DumpTarget = "tmp"
             THEN /\ tmpFile' = YamlFile(Append(sofar, all[Len(sofar) + 1]))
                  /\ UNCHANGED metaFile
             ELSE /\ metaFile' = YamlFile(Append(sofar, all[Len(sofar) + 1]))
                  /\ tmpFile' = YamlFile(Append(tmpFile.lines, all[Len(tmpFile.lines) + 1]))
    /\ UNCHANGED <<metaLock, hpc, doc, modified, hres, touched, edits, openedSt>>
    /\ UNCHANGED restOfMeta

\* os.rename (tmpPath, self.relMetaPath), once the dump is complete and closed.
wm_rename(h) ==
    /\ hpc[h] = "wm_dump"
    /\ tmpFile.st = "yaml"
    /\ Len(tmpFile.lines) = Len(Serialize(doc[h]))
    /\ metaFile' = tmpFile
    /\ tmpFile' = AbsentFile
    /\ hpc' = [hpc EXCEPT ![h] = "wm_unlock"]
    /\ UNCHANGED <<metaLock, doc, modified, hres, touched, edits, openedSt>>
    /\ UNCHANGED restOfMeta

\* Leaving softlock (finally: unlink), then self.metadata.modified = False.
wm_unlock(h) ==
    /\ hpc[h] = "wm_unlock"
    /\ metaLock' = UnlinkIgnoreMissing(metaLock).file
    /\ modified' = [modified EXCEPT ![h] = FALSE]
    /\ touched' = [touched EXCEPT ![h] = FALSE]
    /\ hpc' = [hpc EXCEPT ![h] = "closed"]
    /\ hres' = [hres EXCEPT ![h] = "flushed"]
    /\ doc' = [doc EXCEPT ![h] = EmptyDoc]
    /\ UNCHANGED <<metaFile, tmpFile, edits, openedSt>>
    /\ UNCHANGED restOfMeta

\* The dump raises (a value yaml cannot represent, a full disk): the lock is
\* released by the finally clause, the document stays modified.
wm_raises(h) ==
    /\ hpc[h] = "wm_dump"
    /\ metaLock' = UnlinkIgnoreMissing(metaLock).file
    /\ hpc' = [hpc EXCEPT ![h] = "closed"]
    /\ hres' = [hres EXCEPT ![h] = "raised"]
    /\ UNCHANGED <<metaFile, tmpFile, doc, modified, touched, edits, openedSt>>
    /\ UNCHANGED restOfMeta

\* The writing process is killed at any point of the flush; its handle is
\* gone with it, its files stay.
writer_killed(h) ==
    /\ hpc[h] \in {"wm_tmp", "wm_dump", "wm_unlock"}
    /\ hpc' = [hpc EXCEPT ![h] = "dead"]
    /\ doc' = [doc EXCEPT ![h] = EmptyDoc]
    /\ modified' = [modified EXCEPT ![h] = FALSE]
    /\ touched' = [touched EXCEPT ![h] = FALSE]
    /\ edits' = [edits EXCEPT ![h] = 0]
    /\ hres' = [hres EXCEPT ![h] = "killed"]
    /\ openedSt' = [openedSt EXCEPT ![h] = "none"]
    /\ UNCHANGED <<metaFile, tmpFile, metaLock>>
    /\ UNCHANGED restOfMeta

MetaStep(h) ==
    \/ Workspace_open(h)
    \/ \E k \in UserKeys :
          \/ md_setitem(h, k)
          \/ md_delitem(h, k)
          \/ md_update(h, k)
          \/ md_pop(h, k)
    \/ Workspace_close(h)
    \/ wm_open_tmp(h)
    \/ wm_dump(h)
    \/ wm_rename(h)
    \/ wm_unlock(h)
    \/ wm_raises(h)
    \/ writer_killed(h)

NextMeta == \E h \in Handles : MetaStep(h)

(***************************************************************************)
(* Creating, copying and importing a workspace: Workspace.create and       *)
(* Workspace.copy (workspace.py), docopy and doimport (cli.py).  metaFile  *)
(* is the metadata file of the source workspace, dstDir says whether the   *)
(* directory named as destination exists, dstMeta is the metadata file of  *)
(* the workspace made there.  Each operation runs once, as a whole.        *)
(***************************************************************************)
LifeOps == {"none", "create", "copy", "docopy", "doimport"}

LifeResults ==
    {"none", "ok", "failed", "FileNotFoundError", "FileExistsError",
     "ExecutionFailed", "Busy", "UnboundLocalError", "YAMLError", "TypeError",
     "AttributeError"}

TypeLife ==
    /\ dstDir \in BOOLEAN
    /\ dstMeta.st \in FileStates
    /\ lifeOp \in LifeOps
    /\ lifeRes \in LifeResults

\* run (cmd): the external program exits with a permitted code or not.
ToolOutcomes == {"ok", "ExecutionFailed"}

\* copydir (rsync): everything is copied (exit 0 or 23), or rsync fails after
\* the metadata file has reached the destination, or before.
RsyncOutcomes == {"ok", "partial", "nothing"}

\* Workspace.__init__ (workspace.py): os.open (self.directory, os.O_RDONLY).
Workspace_init(dirExists) == IF dirExists THEN "ok" ELSE "FileNotFoundError"

\* os.makedirs (ws.directory), without exist_ok.
makedirs(dirExists) == IF dirExists THEN "FileExistsError" ELSE "ok"

\* A process killed while it held the metadata lock has left the lock file.
KilledWriter == CHOOSE h \in Handles : \A g \in Handles : h <= g

StaleLockLeft ==
    /\ tmpFile = AbsentFile
    /\ metaLock = KilledWriter
    /\ hpc = [h \in Handles |-> IF h = KilledWriter THEN "dead" ELSE "none"]
    /\ doc = [h \in Handles |-> EmptyDoc]
    /\ modified = [h \in Handles |-> FALSE]
    /\ hres = [h \in Handles |-> IF h = KilledWriter THEN "killed" ELSE "none"]
    /\ touched = [h \in Handles |-> FALSE]
    /\ edits = [h \in Handles |-> 0]
    /\ openedSt = [h \in Handles |-> "none"]

InitLife ==
    /\ metaFile \in InitFiles
    /\ HandlesIdle \/ (metaFile.st = "yaml" /\ StaleLockLeft)
    /\ dstDir \in BOOLEAN
    /\ dstMeta = AbsentFile
    /\ lifeOp = "none"
    /\ lifeRes = "none"

\* The end of a life-cycle operation.
LifeDone(op, res, dir, meta) ==
    /\ lifeOp = "none"
    /\ lifeOp' = op
    /\ lifeRes' = res
    /\ dstDir' = dir
    /\ dstMeta' = meta
    /\ UNCHANGED restOfLife

\* Workspace.create (directory), with its handle closed: ws = cls (directory)
\* opens the directory, then os.makedirs creates it.  removed: another
\* process removes the directory between the two.  callerSets: the with
\* block sets a key of the metadata.
Workspace_create(removed, tool, callerSets) ==
    LET ctor == Workspace_init(dstDir)
        mk == makedirs(dstDir /\ ~removed)
        fresh == resetMetadata(randomId)
        \* a new ModificationAwareDict: modified = False
        final == IF callerSets THEN Update(fresh, Single("name", NewValue("name")))
                 ELSE fresh
        dirty == callerSets
    IN  IF ctor # "ok" THEN LifeDone("create", ctor, dstDir, dstMeta)
        ELSE IF mk # "ok" THEN LifeDone("create", mk, dstDir, dstMeta)
        ELSE IF tool # "ok" THEN LifeDone("create", tool, TRUE, dstMeta)
        ELSE LifeDone("create", "ok", TRUE,
                      IF dirty THEN YamlFile(Serialize(final)) ELSE dstMeta)

\* Workspace.copy (directory) on an open handle of the source, with the
\* handle it yields closed unchanged: copydir, open the copy, ensure*.
Workspace_copy(rsync, tool) ==
    /\ OpenOutcome(metaFile) = "handle"
    /\ LET copied == metaFile
           loaded == LoadedDoc(copied, randomId)
           dirty == ModifiedAfterLoad
           closed == IF dirty /\ metaLock = Nobody
                     THEN YamlFile(Serialize(loaded)) ELSE copied
       IN  IF rsync = "nothing"
           THEN LifeDone("copy", "ExecutionFailed", dstDir, dstMeta)
           ELSE IF rsync = "partial"
           THEN LifeDone("copy", "ExecutionFailed", TRUE, copied)
           ELSE IF tool # "ok"
           THEN LifeDone("copy", tool, TRUE, closed)
           ELSE LifeDone("copy", "ok", TRUE, closed)

\* Workspace.open of cli.py: the document is what the file holds.
CliOpenOutcome(f) ==
    CASE f.st \in {"nodir", "absent", "nostat", "unreadable"} -> "InvalidWorkspace"
      [] f.st = "malformed" -> "YAMLError"
      [] OTHER -> "handle"

\* Workspace.create of cli.py: the time stamps, overlaid by the override,
\* under the defaults of Workspace.__init__.
Cli_create(override) == Update(resetMetadata(randomId), override)

\* docopy: open the source, pick a new ID, copydir, writeMetadata.
docopy(rsync) ==
    LET out == CliOpenOutcome(metaFile)
        meta == Update(Parse(metaFile.lines), Single("_id", randomId))
        destination == Cli_create(meta)
        locked == OpenCreatExcl(metaLock, KilledWriter).exists
    IN  IF out = "InvalidWorkspace"
        THEN \* the handler formats the unbound name source
             LifeDone("docopy", "UnboundLocalError", dstDir, dstMeta)
        ELSE IF out # "handle"
        THEN LifeDone("docopy", out, dstDir, dstMeta)
        ELSE IF metaFile.st = "nonmap"
        THEN LifeDone("docopy", "TypeError", dstDir, dstMeta)
        ELSE IF rsync = "nothing"
        THEN LifeDone("docopy", "failed", dstDir, dstMeta)
        ELSE IF rsync = "partial" \/ locked
        THEN LifeDone("docopy", "failed", TRUE, metaFile)
        ELSE LifeDone("docopy", "ok", TRUE, YamlFile(Serialize(destination)))

\* doimport of an archive of the source workspace: unpack, open, initWorkspace
\* (which writes the metadata), rename to the destination, open, assign a new
\* id, writeMetadata.  The scratch directory is removed on every exit.
doimport(unpack, tool) ==
    LET out == CliOpenOutcome(metaFile)
        locked == OpenCreatExcl(metaLock, KilledWriter).exists
        imported == Update(Parse(metaFile.lines), Single("_id", randomId))
    IN  IF unpack # "ok"
        THEN LifeDone("doimport", unpack, dstDir, dstMeta)
        ELSE IF out = "InvalidWorkspace"
        THEN LifeDone("doimport", "failed", dstDir, dstMeta)
        ELSE IF out # "handle"
        THEN LifeDone("doimport", out, dstDir, dstMeta)
        ELSE IF tool # "ok"
        THEN LifeDone("doimport", tool, dstDir, dstMeta)
        ELSE IF locked
        THEN LifeDone("doimport", "Busy", dstDir, dstMeta)
        ELSE IF metaFile.st = "nonmap"
        THEN LifeDone("doimport", "AttributeError", dstDir, dstMeta)
        ELSE LifeDone("doimport", "ok", TRUE, YamlFile(Serialize(imported)))

NextLife ==
    \/ \E removed, callerSets \in BOOLEAN : \E tool \in ToolOutcomes :
          Workspace_create(removed, tool, callerSets)
    \/ \E rsync \in RsyncOutcomes : \E tool \in ToolOutcomes :
          Workspace_copy(rsync, tool)
    \/ \E rsync \in RsyncOutcomes : docopy(rsync)
    \/ \E unpack, tool \in ToolOutcomes : doimport(unpack, tool)

(***************************************************************************)
(* Classifying a failed rebuild: storePathToPackageName and decodeFailure  *)
(* (workspace.py).  A store path is the sequence of the pieces between the *)
(* dashes of its file name: the hash first, ".drv" part of the last.  A    *)
(* piece is pure when all its characters are in [a-z0-9], and numeric when *)
(* it begins with a character of [0-9.].                                   *)
(***************************************************************************)
Piece(text, pure, numeric) == [text |-> text, pure |-> pure, numeric |-> numeric]

HashPiece == Piece("abc", TRUE, FALSE)

\* Derivations: the package name as guix knows it, and the store path.
Drv(name, pieces) == [name |-> name, path |-> <<HashPiece>> \o pieces]

Drvs ==
    { Drv("foo", <<Piece("foo", TRUE, FALSE), Piece("1.0.drv", FALSE, TRUE)>>),
      Drv("bar", <<Piece("bar", TRUE, FALSE), Piece("2.drv", FALSE, TRUE)>>),
      Drv("python-numpy", <<Piece("python", TRUE, FALSE),
                            Piece("numpy", TRUE, FALSE),
                            Piece("1.2.3.drv", FALSE, TRUE)>>),
      \* no version: profile.drv, ca-certificate-bundle.drv
      Drv("profile", <<Piece("profile.drv", FALSE, FALSE)>>),
      \* a character outside [a-z0-9-] in the name
      Drv("gtk+", <<Piece("gtk+", FALSE, FALSE), Piece("3.24.drv", FALSE, TRUE)>>) }

RECURSIVE JoinDash(_)
JoinDash(pieces) ==
    IF Len(pieces) = 0 THEN ""
    ELSE IF Len(pieces) = 1 THEN pieces[1].text
    ELSE pieces[1].text \o "-" \o JoinDash(Tail(pieces))

\* re.match (r'/gnu/store/[a-z0-9]+-([a-z0-9-]+)-[0-9-.]+(\.drv)?', p): the
\* group is the longest run of pure pieces after the hash that is followed
\* by a numeric piece; m is None when there is none.
NameEnds(path) ==
    {k \in 2..(Len(path) - 1) :
        /\ \A i \in 1..k : path[i].pure
        /\ path[k + 1].numeric}

storePathToPackageName(path) ==
    IF NameEnds(path) = {}
    THEN [raises |-> TRUE, name |-> ""]       \* m.group on None: AttributeError
    ELSE LET k == CHOOSE j \in NameEnds(path) : \A i \in NameEnds(path) : i <= j
         IN  [raises |-> FALSE, name |-> JoinDash(SubSeq(path, 2, k))]

\* The lines of the stderr of the failed command.
BuildLine(d) == [kind |-> "build", drv |-> d]
NoDrv == CHOOSE d \in Drvs : d.name = "foo"
LoadLine == [kind |-> "load", drv |-> NoDrv]
OtherLine == [kind |-> "other", drv |-> NoDrv]
BytesLine == [kind |-> "bytes", drv |-> NoDrv]     \* bytes that are no UTF-8

StderrLines == {BuildLine(d) : d \in Drvs} \cup {LoadLine, OtherLine, BytesLine}

MaxLines == 2

Stderrs == UNION {[1..n -> StderrLines] : n \in 0..MaxLines}

\* What a failed rebuild wrote, in the runs of ensureProfile: nothing that
\* decodeFailure classifies, or the failed build of one package.
SyncStderrs == {s \in Stderrs : Len(s) = 0 \/ (Len(s) = 1 /\ s[1] = BuildLine(NoDrv))}

NoNames == <<>>

Raised(type, names) == [type |-> type, names |-> names]

IsBuild(l) == l.kind = "build"

\* decodeFailure (e)
decodeFailure(stderr) ==
    LET m == SelectSeq(stderr, IsBuild)
        names == [i \in 1..Len(m) |-> storePathToPackageName(m[i].drv.path)]
    IN  IF \E i \in 1..Len(stderr) : stderr[i].kind = "bytes"
        THEN Raised("UnicodeDecodeError", NoNames)      \* stderr.decode ('utf-8')
        ELSE IF Len(m) > 0
        THEN IF \E i \in 1..Len(m) : names[i].raises
             THEN Raised("AttributeError", NoNames)
             ELSE Raised("WorkspacePackageBuildFailure",
                         [i \in 1..Len(m) |-> names[i].name])
        ELSE IF \E i \in 1..Len(stderr) : stderr[i].kind = "load"
        THEN Raised("WorkspaceBroken", NoNames)
        ELSE Raised("ExecutionFailed", NoNames)

(***************************************************************************)
(* Profile synchronisation: Workspace.ensureGuix, Workspace.ensureProfile  *)
(* and Workspace.toDict (workspace.py).  The lock steps are system calls;  *)
(* what a call does between taking and releasing its lock is one step.     *)
(***************************************************************************)
NumSync == 2        \* processes that call into one workspace
MaxClock == 4       \* the clock up to which the user edits files

SyncProcs == 1..NumSync

SyncOps == {"none", "ensureProfile", "ensureGuix", "toDict", "upgrade"}

SyncResults ==
    {"none", "ok", "Busy", "ExecutionFailed", "KeyboardInterrupt",
     "WorkspacePackageBuildFailure", "WorkspaceBroken", "AttributeError",
     "UnicodeDecodeError"}

TypeSync ==
    /\ profLock \in SyncProcs \cup {Nobody}
    /\ guixLock \in SyncProcs \cup {Nobody}
    /\ clock \in Nat /\ guixM \in 0..clock /\ chanM \in 0..clock
    /\ manM \in 0..clock /\ profM \in 0..clock
    /\ guixEx \in BOOLEAN /\ profEx \in BOOLEAN /\ havePk \in BOOLEAN
    /\ settled \in BOOLEAN /\ pinned \in BOOLEAN
    /\ sop \in [SyncProcs -> SyncOps]
    /\ spc \in [SyncProcs -> {"idle", "up_written", "ep_in", "eg_in", "ep_check",
                            "done", "reverted"}]
    /\ sres \in [SyncProcs -> SyncResults]
    /\ ranCmd \in [SyncProcs -> BOOLEAN]
    /\ failedCmd \in [SyncProcs -> BOOLEAN]
    /\ pulled \in [SyncProcs -> BOOLEAN]
    /\ rebuilt \in [SyncProcs -> BOOLEAN]

SyncProcsIdle ==
    /\ profLock = Nobody
    /\ guixLock = Nobody
    /\ sop = [p \in SyncProcs |-> "none"]
    /\ spc = [p \in SyncProcs |-> "idle"]
    /\ sres = [p \in SyncProcs |-> "none"]
    /\ ranCmd = [p \in SyncProcs |-> FALSE]
    /\ failedCmd = [p \in SyncProcs |-> FALSE]
    /\ pulled = [p \in SyncProcs |-> FALSE]
    /\ rebuilt = [p \in SyncProcs |-> FALSE]

\* A workspace nothing has been synchronised in.
SyncIdle ==
    /\ SyncProcsIdle
    /\ clock = 0 /\ guixEx = FALSE /\ guixM = 0 /\ chanM = 0 /\ manM = 0
    /\ profEx = FALSE /\ profM = 0 /\ havePk = FALSE
    /\ settled = FALSE /\ pinned = FALSE

\* Workspaces as earlier runs and edits have left them: a guix and a profile
\* installed at time 2 or none, a manifest and a channel file older or newer.
InitSync ==
    /\ SyncProcsIdle
    /\ clock = 3
    /\ guixEx \in BOOLEAN
    /\ guixM = (IF guixEx THEN 2 ELSE 0)
    /\ chanM \in {1, 3}
    /\ manM \in {1, 3}
    /\ profEx \in BOOLEAN
    /\ profM = (IF profEx THEN 2 ELSE 0)
    /\ havePk \in BOOLEAN
    /\ havePk => (profEx /\ guixEx)
    \* a newer file is told from an older one only where its mtime is read
    /\ chanM = 3 => guixEx
    /\ manM = 3 => (profEx /\ havePk)
    /\ settled = FALSE
    /\ pinned = FALSE

\* raise Busy () is outside the try/finally of softlock: the file found is left.
BusyLeaves_unlinked(existing) == Nobody

BusyLeaves(existing) == existing

\* Leaving the with block of a softlock, on return and on any exception.
LeaveLock(existing) == UnlinkIgnoreMissing(existing).file

\* Process p's call has ended.
SyncDone(p, res) ==
    /\ spc' = [spc EXCEPT ![p] = "done"]
    /\ sres' = [sres EXCEPT ![p] = res]

Nested(p) == sop[p] \in {"ensureProfile", "upgrade"}

\* The processes are numbered in the order in which their calls begin.
Begins(p) == spc[p] = "idle" /\ \A q \in SyncProcs : q < p => spc[q] # "idle"

\* ensureProfile: with softlock (.cache/mashru3.ensureProfile.lock)
ensureProfile_enter(p) ==
    /\ Begins(p) \/ spc[p] = "up_written"
    /\ sop' = [sop EXCEPT ![p] = IF spc[p] = "idle" THEN "ensureProfile" ELSE @]
    /\ LET r == OpenCreatExcl(profLock, p) IN
       IF r.exists
       THEN /\ profLock' = BusyLeaves(profLock)
            /\ SyncDone(p, "Busy")
       ELSE /\ profLock' = r.file
            /\ spc' = [spc EXCEPT ![p] = "ep_in"]
            /\ UNCHANGED sres
    /\ UNCHANGED <<guixLock, syncFiles, ranCmd, failedCmd, pulled, rebuilt>>
    /\ UNCHANGED restOfSync

\* ensureGuix, called by ensureProfile or on its own:
\* with softlock (.cache/mashru3.ensureGuix.lock)
ensureGuix_enter(p) ==
    /\ Begins(p) \/ spc[p] = "ep_in"
    /\ sop' = [sop EXCEPT ![p] = IF spc[p] = "idle" THEN "ensureGuix" ELSE @]
    /\ LET r == OpenCreatExcl(guixLock, p) IN
       IF r.exists
       THEN /\ guixLock' = BusyLeaves(guixLock)
            /\ profLock' = IF spc[p] = "ep_in" THEN LeaveLock(profLock)
                           ELSE profLock
            /\ SyncDone(p, "Busy")
       ELSE /\ guixLock' = r.file
            /\ spc' = [spc EXCEPT ![p] = "eg_in"]
            /\ UNCHANGED <<profLock, sres>>
    /\ UNCHANGED <<syncFiles, ranCmd, failedCmd, pulled, rebuilt>>
    /\ UNCHANGED restOfSync

\* os.utime (tmpChannelPath, times=(profileMtime, profileMtime)) before the
\* rename: the mtime channels.scm ends with.
PinMtime_unfixed(profileMtime, now) == now

PinMtime(profileMtime, now) == profileMtime

PullOutcomes == {"ok", "untouched", "ExecutionFailed", "KeyboardInterrupt"}

\* The body of ensureGuix and the release of its lock.  pull: how 'guix
\* pull' ends, untouched when it finds nothing to do; describe: how 'guix
\* describe' ends.
ensureGuix_body(p, pull, describe) ==
    /\ spc[p] = "eg_in"
    /\ LET channelMtime == chanM
           profileMtime == IF guixEx THEN guixM ELSE 0
           needPull == ~guixEx \/ channelMtime > profileMtime
           pullRaises == needPull /\ pull \in {"ExecutionFailed", "KeyboardInterrupt"}
           pullWrites == needPull /\ pull = "ok"
           tPull == IF pullWrites THEN clock + 1 ELSE clock
           raises == pullRaises \/ describe # "ok"
           res == IF pullRaises THEN pull ELSE describe
       IN  /\ needPull \/ pull = "untouched"
           /\ (pull = "untouched" /\ needPull) => guixEx
           /\ pullRaises => describe = "ok"
           /\ pulled' = [pulled EXCEPT ![p] = needPull]
           /\ ranCmd' = [ranCmd EXCEPT ![p] = TRUE]
           /\ failedCmd' = [failedCmd EXCEPT ![p] = raises /\ res = "ExecutionFailed"]
           /\ guixEx' = (guixEx \/ pullWrites)
           /\ guixM' = IF pullWrites THEN tPull ELSE guixM
           /\ settled' = (settled /\ ~pullWrites)
           /\ guixLock' = LeaveLock(guixLock)
           /\ IF raises
              THEN /\ clock' = tPull
                   /\ profLock' = IF Nested(p) THEN LeaveLock(profLock) ELSE profLock
                   /\ SyncDone(p, res)
                   /\ UNCHANGED <<chanM, pinned>>
              ELSE /\ chanM' = PinMtime(profileMtime, tPull + 1)
                   /\ clock' = IF chanM' > tPull THEN chanM' ELSE tPull
                   /\ pinned' = TRUE
                   /\ UNCHANGED profLock
                   /\ IF Nested(p)
                      THEN spc' = [spc EXCEPT ![p] = "ep_check"] /\ UNCHANGED sres
                      ELSE SyncDone(p, "ok")
    /\ UNCHANGED <<manM, profEx, profM, havePk, sop, rebuilt>>
    /\ UNCHANGED restOfSync

\* The staleness test of ensureProfile.
Stale_notStrict(exists, profileMtime, manifestMtime, guixprofileMtime, haveExtra) ==
    \/ ~exists
    \/ manifestMtime >= profileMtime
    \/ guixprofileMtime >= profileMtime
    \/ ~haveExtra

Stale(exists, profileMtime, manifestMtime, guixprofileMtime, haveExtra) ==
    \/ ~exists
    \/ manifestMtime > profileMtime
    \/ guixprofileMtime > profileMtime
    \/ ~haveExtra

RebuildOutcomes == {"ok", "untouched", "ExecutionFailed"}

\* The rest of ensureProfile and the release of its lock.  listing: how
\* 'guix package -I' ends; rebuild: how 'guix package -m -i' ends, untouched
\* when guix finds nothing to do and leaves the symlinks; stderr: what a
\* failed rebuild wrote; utime: how os.utime on the profile ends, with
\* PermissionError when the caller does not own the symlink.
UtimeOutcomes == {"ok", "PermissionError"}

ensureProfile_body(p, listing, rebuild, stderr, utime) ==
    /\ spc[p] = "ep_check"
    /\ LET guixprofileMtime == guixM
           profileMtime == IF profEx THEN profM ELSE 0
           manifestMtime == manM
           stale == Stale(profEx, profileMtime, manifestMtime, guixprofileMtime, havePk)
           runs == listing = "ok" /\ stale
           succeeds == runs /\ rebuild \in {"ok", "untouched"}
           tBuild == IF runs /\ rebuild = "ok" THEN clock + 1 ELSE clock
           \* os.utime (profilePath, times=(now, now)): PermissionError is ignored
           tTouch == IF succeeds /\ utime = "ok" THEN tBuild + 1 ELSE tBuild
           res == IF listing # "ok" THEN listing
                  ELSE IF ~stale \/ succeeds THEN "ok"
                  ELSE IF rebuild = "ExecutionFailed" THEN decodeFailure(stderr).type
                  ELSE rebuild
       IN  /\ (~runs) => rebuild = "ok"
           /\ (~succeeds) => utime = "ok"
           /\ (~runs \/ rebuild # "ExecutionFailed") => stderr = <<>>
           /\ (rebuild = "untouched") => (profEx /\ havePk)
           /\ rebuilt' = [rebuilt EXCEPT ![p] = runs]
           /\ failedCmd' = [failedCmd EXCEPT ![p] =
                 listing # "ok" \/ (runs /\ rebuild = "ExecutionFailed")]
           /\ profEx' = (profEx \/ succeeds)
           /\ havePk' = (havePk \/ succeeds)
           /\ profM' = IF succeeds /\ tTouch > clock THEN tTouch ELSE profM
           /\ clock' = tTouch
           /\ settled' = (settled \/ succeeds)
           /\ profLock' = LeaveLock(profLock)
           /\ SyncDone(p, res)
    /\ UNCHANGED <<guixLock, guixEx, guixM, chanM, manM, pinned, sop,
                   ranCmd, pulled>>
    /\ UNCHANGED restOfSync

\* Workspace.toDict: the packages are listed inside try/except Exception,
\* which logs the failure and sets packages = None.
Workspace_toDict(p, listing) ==
    /\ Begins(p)
    /\ guixEx \/ listing = "ok"
    /\ sop' = [sop EXCEPT ![p] = "toDict"]
    /\ ranCmd' = [ranCmd EXCEPT ![p] = guixEx]
    /\ failedCmd' = [failedCmd EXCEPT ![p] = guixEx /\ listing # "ok"]
    /\ SyncDone(p, "ok")
    /\ UNCHANGED <<profLock, guixLock, syncFiles, pulled, rebuilt>>
    /\ UNCHANGED restOfSync

\* The user edits the manifest, or the channel file.
edit_manifest ==
    /\ clock < MaxClock
    /\ clock' = clock + 1
    /\ manM' = clock + 1
    /\ settled' = FALSE
    /\ UNCHANGED <<profLock, guixLock, guixEx, guixM, chanM, profEx, profM,
                   havePk, pinned, syncProcs>>
    /\ UNCHANGED restOfSync

edit_channels ==
    /\ clock < MaxClock
    /\ clock' = clock + 1
    /\ chanM' = clock + 1
    /\ settled' = FALSE
    /\ pinned' = FALSE
    /\ UNCHANGED <<profLock, guixLock, guixEx, guixM, manM, profEx, profM,
                   havePk, syncProcs>>
    /\ UNCHANGED restOfSync

\* doPackageUpgrade (cli.py): the channel file without its commits is written
\* to channels.new and renamed over channels.scm; ws.ensureProfile () follows.
doPackageUpgrade_replace(p) ==
    /\ Begins(p)
    /\ sop' = [sop EXCEPT ![p] = "upgrade"]
    /\ spc' = [spc EXCEPT ![p] = "up_written"]
    /\ clock' = clock + 1
    /\ chanM' = clock + 1
    /\ settled' = FALSE
    /\ pinned' = FALSE
    /\ UNCHANGED <<profLock, guixLock, guixEx, guixM, manM, profEx, profM,
                   havePk, sres, ranCmd, failedCmd, pulled, rebuilt>>
    /\ UNCHANGED restOfSync

\* doPackageUpgrade: except ExecutionFailed: the old channel file is written
\* to channels.new and renamed over channels.scm; raise.
doPackageUpgrade_revert(p) ==
    /\ sop[p] = "upgrade" /\ spc[p] = "done" /\ sres[p] = "ExecutionFailed"
    /\ spc' = [spc EXCEPT ![p] = "reverted"]
    /\ clock' = clock + 1
    /\ chanM' = clock + 1
    /\ settled' = FALSE
    /\ pinned' = FALSE
    /\ UNCHANGED <<profLock, guixLock, guixEx, guixM, manM, profEx, profM,
                   havePk, sop, sres, ranCmd, failedCmd, pulled, rebuilt>>
    /\ UNCHANGED restOfSync

SyncStep(p) ==
    \/ ensureProfile_enter(p)
    \/ ensureGuix_enter(p)
    \/ \E pull \in PullOutcomes : \E describe \in ToolOutcomes :
          ensureGuix_body(p, pull, describe)
    \/ \E listing \in ToolOutcomes : \E rebuild \in RebuildOutcomes :
          \E stderr \in SyncStderrs : \E utime \in UtimeOutcomes :
             ensureProfile_body(p, listing, rebuild, stderr, utime)
    \/ \E listing \in ToolOutcomes : Workspace_toDict(p, listing)

NextSync ==
    \/ \E p \in SyncProcs : SyncStep(p)
    \/ edit_manifest
    \/ edit_channels

(***************************************************************************)
(* decodeFailure applied to the stderr of a failed rebuild.                *)
(***************************************************************************)
NotRaised == Raised("none", NoNames)

DecodeIdle == errIn = <<>> /\ errOut = NotRaised

InitDecode == errIn \in Stderrs /\ errOut = NotRaised

\* except ExecutionFailed as e: decodeFailure (e)
decodeFailure_called ==
    /\ errOut = NotRaised
    /\ errOut' = decodeFailure(errIn)
    /\ UNCHANGED errIn
    /\ UNCHANGED restOfDecode

NextDecode == decodeFailure_called

(***************************************************************************)
(* Waiting for an external subprocess: util.run (subprocess.run) and       *)
(* dorun (subprocess.Popen, cli.py).                                       *)
(***************************************************************************)
GraceTicks == 2     \* length of a bounded wait (0.25 s in run, 3 s in dorun)

RunPaths == {"run", "dorun"}

RunResults == {"none", "returned", "ExecutionFailed", "KeyboardInterrupt",
               "TimeoutExpired"}

TypeRun ==
    /\ rpath \in RunPaths
    /\ rpc \in {"start", "popened", "waiting", "sigint_wait", "terminate",
                "grace", "done"}
    /\ child \in {"none", "running", "exited", "failed"}
    /\ obeysTerm \in BOOLEAN /\ obeysInt \in BOOLEAN
    /\ termSent \in BOOLEAN /\ killSent \in BOOLEAN
    /\ ticks \in 0..GraceTicks
    /\ interrupted \in BOOLEAN
    /\ rres \in RunResults

RunStart ==
    /\ rpc = "start" /\ child = "none"
    /\ termSent = FALSE /\ killSent = FALSE /\ ticks = 0
    /\ interrupted = FALSE /\ rres = "none"

RunIdle == RunStart /\ rpath = "run" /\ obeysTerm = TRUE /\ obeysInt = TRUE

InitRun ==
    /\ RunStart
    /\ rpath \in RunPaths
    /\ obeysTerm \in BOOLEAN
    /\ obeysInt \in BOOLEAN

Ended(c) == c \in {"exited", "failed"}

\* subprocess.run (cmd, ...) enters communicate (); subprocess.Popen (cmd).
start_child ==
    /\ rpc = "start"
    /\ child' = "running"
    /\ rpc' = IF rpath = "run" THEN "waiting" ELSE "popened"
    /\ UNCHANGED <<rpath, obeysTerm, obeysInt, termSent, killSent, ticks,
                   interrupted, rres>>
    /\ UNCHANGED restOfRun

\* dorun: signal.signal (s, stop) for SIGHUP, SIGTERM, SIGINT; p.wait ()
install_handlers ==
    /\ rpc = "popened"
    /\ rpc' = "waiting"
    /\ UNCHANGED <<rpath, child, obeysTerm, obeysInt, termSent, killSent, ticks,
                   interrupted, rres>>
    /\ UNCHANGED restOfRun

\* The subprocess ends: by itself with a permitted exit code or another, on
\* the SIGINT it got with the caller, or on SIGTERM.
child_ends(how) ==
    /\ child = "running"
    /\ rpc # "done"
    /\ \/ how \in {"exited", "failed"} /\ ~interrupted
       \/ how = "failed" /\ interrupted /\ obeysInt
       \/ how = "failed" /\ termSent /\ obeysTerm
    /\ child' = how
    /\ UNCHANGED <<rpath, rpc, obeysTerm, obeysInt, termSent, killSent, ticks,
                   interrupted, rres>>
    /\ UNCHANGED restOfRun

\* run: the subprocess has ended; a return code outside the permitted ones
\* raises ExecutionFailed.
run_returns ==
    /\ rpath = "run" /\ rpc = "waiting" /\ Ended(child)
    /\ rpc' = "done"
    /\ rres' = IF child = "failed" THEN "ExecutionFailed" ELSE "returned"
    /\ UNCHANGED <<rpath, child, obeysTerm, obeysInt, termSent, killSent, ticks,
                   interrupted>>
    /\ UNCHANGED restOfRun

\* SIGINT reaches the caller.  In run, and in dorun before the handlers are
\* installed, it is a KeyboardInterrupt: communicate () waits
\* _sigint_wait_secs for the subprocess; dorun catches it and goes on to
\* p.terminate ().  In dorun with the handlers installed, stop () sends
\* SIGTERM and p.wait () goes on without a bound.
interrupt ==
    /\ ~interrupted
    /\ child = "running"
    /\ rpc \in {"waiting", "popened"}
    /\ interrupted' = TRUE
    /\ IF rpath = "run"
       THEN rpc' = "sigint_wait" /\ UNCHANGED termSent
       ELSE IF rpc = "popened"
       THEN rpc' = "terminate" /\ UNCHANGED termSent
       ELSE rpc' = rpc /\ termSent' = TRUE
    /\ UNCHANGED <<rpath, child, obeysTerm, obeysInt, killSent, ticks, rres>>
    /\ UNCHANGED restOfRun

\* Time passes in a bounded wait while the subprocess runs.
tick ==
    /\ rpc \in {"sigint_wait", "grace"}
    /\ child = "running"
    /\ ticks < GraceTicks
    /\ ticks' = ticks + 1
    /\ UNCHANGED <<rpath, rpc, child, obeysTerm, obeysInt, termSent, killSent,
                   interrupted, rres>>
    /\ UNCHANGED restOfRun

\* The bounded wait is over: the subprocess has ended or the time is up.
WaitOver == Ended(child) \/ ticks = GraceTicks

\* What the caller does to a subprocess still running when it gives up
\* waiting for it.  run: "except: process.kill (); raise", and Popen.__exit__
\* waits for the subprocess.
Signals(term, kill) == [term |-> term, kill |-> kill]

RunGivesUp == Signals(FALSE, TRUE)

run_kills ==
    /\ rpath = "run" /\ rpc = "sigint_wait" /\ WaitOver
    /\ termSent' = (termSent \/ (child = "running" /\ RunGivesUp.term))
    /\ killSent' = (killSent \/ (child = "running" /\ RunGivesUp.kill))
    /\ child' = IF child = "running" THEN "failed" ELSE child
    /\ rpc' = "done"
    /\ rres' = "KeyboardInterrupt"
    /\ UNCHANGED <<rpath, obeysTerm, obeysInt, ticks, interrupted>>
    /\ UNCHANGED restOfRun

\* dorun: p.wait () has returned.
dorun_wait_returns ==
    /\ rpath = "dorun" /\ rpc = "waiting" /\ Ended(child)
    /\ rpc' = "terminate"
    /\ UNCHANGED <<rpath, child, obeysTerm, obeysInt, termSent, killSent, ticks,
                   interrupted, rres>>
    /\ UNCHANGED restOfRun

\* dorun: p.terminate (); ret = p.wait (3) begins.
dorun_terminate ==
    /\ rpath = "dorun" /\ rpc = "terminate"
    /\ termSent' = (termSent \/ child = "running")
    /\ rpc' = "grace"
    /\ ticks' = 0
    /\ UNCHANGED <<rpath, child, obeysTerm, obeysInt, killSent, interrupted, rres>>
    /\ UNCHANGED restOfRun

\* dorun: p.wait (3) returns the exit code, or raises TimeoutExpired when the
\* time is up; it never returns None, so "if ret is None: p.kill ()" is not
\* reached.
DorunTimesOut == Signals(FALSE, FALSE)

dorun_grace_ends ==
    /\ rpath = "dorun" /\ rpc = "grace" /\ WaitOver
    /\ killSent' = (killSent \/ (child = "running" /\ DorunTimesOut.kill))
    /\ child' = IF child = "running" /\ DorunTimesOut.kill THEN "failed" ELSE child
    /\ rres' = IF child = "running" /\ ~DorunTimesOut.kill THEN "TimeoutExpired"
               ELSE "returned"
    /\ rpc' = "done"
    /\ UNCHANGED <<rpath, obeysTerm, obeysInt, termSent, ticks, interrupted>>
    /\ UNCHANGED restOfRun

NextRun ==
    \/ start_child
    \/ install_handlers
    \/ \E how \in {"exited", "failed"} : child_ends(how)
    \/ run_returns
    \/ interrupt
    \/ tick
    \/ run_kills
    \/ dorun_wait_returns
    \/ dorun_terminate
    \/ dorun_grace_ends

(***************************************************************************)
(* Creating a workspace: Workspace.create (workspace.py) and docreate with *)
(* initWorkspace (cli.py), one step for each call that touches the         *)
(* workspace directory.                                                    *)
(***************************************************************************)
CreateOps == {"create", "docreate"}

Skeletons == {"none", "home", "etc", "both"}

WorkspaceFiles == {"skel", "guix", "pin", "profile", "meta"}

CreateResults ==
    {"none", "ok", "FileNotFoundError", "FileExistsError", "ExecutionFailed",
     "NotImplementedError", "Busy", "KeyboardInterrupt"}

TypeCreate ==
    /\ crOp \in CreateOps \cup {"none"}
    /\ crPc \in {"idle", "start", "makedirs", "mkdir", "grant", "sync", "pull",
                 "pin", "list", "build", "roots", "yield", "meta", "format",
                 "done"}
    /\ crDirEx \in BOOLEAN
    /\ crSkel \in Skeletons
    /\ crFiles \subseteq WorkspaceFiles
    /\ crGranted \in BOOLEAN
    /\ crSync \in {"no", "started", "ok", "failed"}
    /\ crRoots \in BOOLEAN
    /\ crRes \in CreateResults

CreateStart ==
    /\ crFiles = {} /\ crGranted = FALSE /\ crSync = "no" /\ crRoots = FALSE
    /\ crRes = "none"

CreateIdle ==
    /\ CreateStart
    /\ crOp = "none" /\ crPc = "idle" /\ crDirEx = FALSE /\ crSkel = "none"

\* docreate gets its directory from nameToPath: it does not exist.
InitCreate ==
    /\ CreateStart
    /\ crOp \in CreateOps
    /\ crPc = "start"
    /\ crDirEx \in BOOLEAN
    /\ crSkel \in Skeletons
    /\ crOp = "docreate" => ~crDirEx
    /\ crOp = "create" => crSkel = "none"

\* The creation goes on to position pc.
CreateGoes(pc) == crPc' = pc /\ crRes' = crRes

\* The creation ends with res.
CreateEnds(res) == crPc' = "done" /\ crRes' = res

\* Workspace.create: ws = cls (directory); __init__ opens the directory.
create_init ==
    /\ crOp = "create" /\ crPc = "start"
    /\ IF Workspace_init(crDirEx) = "ok"
       THEN CreateGoes("makedirs")
       ELSE CreateEnds(Workspace_init(crDirEx))
    /\ UNCHANGED <<crOp, crDirEx, crSkel, crFiles, crGranted, crSync, crRoots>>
    /\ UNCHANGED restOfCreate

\* Another process removes the directory the handle has opened.
directory_removed ==
    /\ crOp = "create" /\ crPc = "makedirs" /\ crDirEx
    /\ crDirEx' = FALSE
    /\ UNCHANGED <<crOp, crPc, crSkel, crFiles, crGranted, crSync, crRoots, crRes>>
    /\ UNCHANGED restOfCreate

\* Workspace.create: os.makedirs (ws.directory)
create_makedirs ==
    /\ crOp = "create" /\ crPc = "makedirs"
    /\ IF makedirs(crDirEx) = "ok"
       THEN crDirEx' = TRUE /\ CreateGoes("grant")
       ELSE UNCHANGED crDirEx /\ CreateEnds(makedirs(crDirEx))
    /\ UNCHANGED <<crOp, crSkel, crFiles, crGranted, crSync, crRoots>>
    /\ UNCHANGED restOfCreate

\* docreate: the first skeleton directory there is, is copied to the
\* workspace directory with copydir.
docreate_skeleton(rsync) ==
    /\ crOp = "docreate" /\ crPc = "start"
    /\ IF crSkel = "none"
       THEN rsync = "ok" /\ CreateGoes("mkdir") /\ UNCHANGED <<crDirEx, crFiles>>
       ELSE IF rsync = "ok"
       THEN crDirEx' = TRUE /\ crFiles' = {"skel"} /\ CreateGoes("mkdir")
       ELSE IF rsync = "partial"
       THEN crDirEx' = TRUE /\ crFiles' = {"skel"} /\ CreateEnds("ExecutionFailed")
       ELSE UNCHANGED <<crDirEx, crFiles>> /\ CreateEnds("ExecutionFailed")
    /\ UNCHANGED <<crOp, crSkel, crGranted, crSync, crRoots>>
    /\ UNCHANGED restOfCreate

\* docreate: if not ws.directory.is_dir (): os.makedirs (ws.directory)
docreate_makedirs ==
    /\ crOp = "docreate" /\ crPc = "mkdir"
    /\ crDirEx' = TRUE
    /\ CreateGoes("grant")
    /\ UNCHANGED <<crOp, crSkel, crFiles, crGranted, crSync, crRoots>>
    /\ UNCHANGED restOfCreate

GrantOutcomes == {"ok", "ExecutionFailed", "NotImplementedError"}

\* ensurePermissions, initWorkspace: setPermissions (USER, getuser (), 'rwX',
\* directory, default=True, recursive=True)
owner_grant(out) ==
    /\ crPc = "grant"
    /\ IF out = "ok"
       THEN crGranted' = TRUE /\ CreateGoes("sync")
       ELSE UNCHANGED crGranted /\ CreateEnds(out)
    /\ UNCHANGED <<crOp, crDirEx, crSkel, crFiles, crSync, crRoots>>
    /\ UNCHANGED restOfCreate

\* ws.ensureProfile (): the sync locks are taken (.cache is made).
sync_enter(out) ==
    /\ crPc = "sync"
    /\ out \in {"ok", "Busy"}
    /\ IF out = "ok"
       THEN crSync' = "started" /\ CreateGoes("pull")
       ELSE crSync' = "failed" /\ CreateEnds(out)
    /\ UNCHANGED <<crOp, crDirEx, crSkel, crFiles, crGranted, crRoots>>
    /\ UNCHANGED restOfCreate

\* ensureGuix: guix pull makes .config/guix/current.
sync_pull(out) ==
    /\ crPc = "pull"
    /\ out \in {"ok", "ExecutionFailed", "KeyboardInterrupt"}
    /\ IF out = "ok"
       THEN crFiles' = crFiles \cup {"guix"} /\ UNCHANGED crSync /\ CreateGoes("pin")
       ELSE UNCHANGED crFiles /\ crSync' = "failed" /\ CreateEnds(out)
    /\ UNCHANGED <<crOp, crDirEx, crSkel, crGranted, crRoots>>
    /\ UNCHANGED restOfCreate

\* ensureGuix: guix describe into channels.scm.tmp, renamed to channels.scm.
sync_pin(out) ==
    /\ crPc = "pin"
    /\ out \in ToolOutcomes
    /\ IF out = "ok"
       THEN crFiles' = crFiles \cup {"pin"} /\ UNCHANGED crSync /\ CreateGoes("list")
       ELSE UNCHANGED crFiles /\ crSync' = "failed" /\ CreateEnds(out)
    /\ UNCHANGED <<crOp, crDirEx, crSkel, crGranted, crRoots>>
    /\ UNCHANGED restOfCreate

\* ensureProfile: self.packages runs guix package -I.
sync_list(out) ==
    /\ crPc = "list"
    /\ out \in ToolOutcomes
    /\ IF out = "ok"
       THEN UNCHANGED crSync /\ CreateGoes("build")
       ELSE crSync' = "failed" /\ CreateEnds(out)
    /\ UNCHANGED <<crOp, crDirEx, crSkel, crFiles, crGranted, crRoots>>
    /\ UNCHANGED restOfCreate

\* ensureProfile: guix package builds the profile.
sync_build(out) ==
    /\ crPc = "build"
    /\ out \in ToolOutcomes
    /\ IF out = "ok"
       THEN /\ crFiles' = crFiles \cup {"profile"}
            /\ crSync' = "ok"
            /\ CreateGoes(IF crOp = "create" THEN "roots" ELSE "meta")
       ELSE UNCHANGED crFiles /\ crSync' = "failed" /\ CreateEnds(out)
    /\ UNCHANGED <<crOp, crDirEx, crSkel, crGranted, crRoots>>
    /\ UNCHANGED restOfCreate

\* Workspace.create: ws.ensureGcroots ()
create_gcroots(out) ==
    /\ crOp = "create" /\ crPc = "roots"
    /\ out \in ToolOutcomes
    /\ IF out = "ok"
       THEN crRoots' = TRUE /\ CreateGoes("yield")
       ELSE UNCHANGED crRoots /\ CreateEnds(out)
    /\ UNCHANGED <<crOp, crDirEx, crSkel, crFiles, crGranted, crSync>>
    /\ UNCHANGED restOfCreate

\* Workspace.create: yield ws; finally ws.close (), which writes the metadata
\* the caller has modified.
create_close(callerSets, out) ==
    /\ crOp = "create" /\ crPc = "yield"
    /\ out \in {"ok", "Busy"}
    /\ callerSets \/ out = "ok"
    /\ crFiles' = IF callerSets /\ out = "ok" THEN crFiles \cup {"meta"} ELSE crFiles
    /\ CreateEnds(out)
    /\ UNCHANGED <<crOp, crDirEx, crSkel, crGranted, crSync, crRoots>>
    /\ UNCHANGED restOfCreate

\* initWorkspace: ws.writeMetadata ()
docreate_writeMetadata(out) ==
    /\ crOp = "docreate" /\ crPc = "meta"
    /\ out \in {"ok", "Busy"}
    /\ IF out = "ok"
       THEN crFiles' = crFiles \cup {"meta"} /\ CreateGoes("format")
       ELSE UNCHANGED crFiles /\ CreateEnds(out)
    /\ UNCHANGED <<crOp, crDirEx, crSkel, crGranted, crSync, crRoots>>
    /\ UNCHANGED restOfCreate

\* docreate: formatWorkspace (args, ws) lists the packages with guix; return 0.
docreate_format(out) ==
    /\ crOp = "docreate" /\ crPc = "format"
    /\ out \in ToolOutcomes
    /\ CreateEnds(out)
    /\ UNCHANGED <<crOp, crDirEx, crSkel, crFiles, crGranted, crSync, crRoots>>
    /\ UNCHANGED restOfCreate

NextCreate ==
    \/ create_init
    \/ directory_removed
    \/ create_makedirs
    \/ \E rsync \in RsyncOutcomes : docreate_skeleton(rsync)
    \/ docreate_makedirs
    \/ \E out \in GrantOutcomes : owner_grant(out)
    \/ \E out \in {"ok", "Busy"} : sync_enter(out)
    \/ \E out \in PullOutcomes : sync_pull(out)
    \/ \E out \in ToolOutcomes : sync_pin(out)
    \/ \E out \in ToolOutcomes : sync_list(out)
    \/ \E out \in ToolOutcomes : sync_build(out)
    \/ \E out \in ToolOutcomes : create_gcroots(out)
    \/ \E callerSets \in BOOLEAN : \E out \in {"ok", "Busy"} :
          create_close(callerSets, out)
    \/ \E out \in {"ok", "Busy"} : docreate_writeMetadata(out)
    \/ \E out \in ToolOutcomes : docreate_format(out)

(***************************************************************************)
(* Workspace.move on an open handle, and the close that follows.  The      *)
(* handle holds a descriptor of the workspace directory (dirfd), through   *)
(* which chdir enters it wherever it has been renamed to.                  *)
(***************************************************************************)
MaxMoves == 2

Places == {"a", "b", "c"}

HomePlace == "a"

PlaceStates == {"none", "empty", "full", "ws"}

MoveResults == {"none", "ok", "OSError", "ExecutionFailed"}

TypeMove ==
    /\ mvPlace \in [Places -> PlaceStates]
    /\ mvDir \in Places
    /\ mvRooted \subseteq Places
    /\ mvPending \in BOOLEAN /\ mvFlushed \in BOOLEAN
    /\ mvStray \subseteq Places
    /\ mvPc \in {"idle", "open", "closed"}
    /\ mvMoves \in 0..MaxMoves
    /\ mvDest \in Places
    /\ mvRes \in MoveResults

MoveIdle ==
    /\ mvPlace = [x \in Places |-> "none"]
    /\ mvDir = HomePlace /\ mvDest = HomePlace
    /\ mvRooted = {} /\ mvStray = {}
    /\ mvPending = FALSE /\ mvFlushed = FALSE
    /\ mvPc = "idle" /\ mvMoves = 0 /\ mvRes = "none"

\* An open handle of the workspace at HomePlace.
InitMove ==
    /\ mvPlace \in [Places -> PlaceStates]
    /\ \A x \in Places : mvPlace[x] = "ws" <=> x = HomePlace
    /\ mvDir = HomePlace /\ mvDest = HomePlace
    /\ mvRooted = {HomePlace} /\ mvStray = {}
    /\ mvPending = FALSE /\ mvFlushed = TRUE
    /\ mvPc = "open" /\ mvMoves = 0 /\ mvRes = "none"

\* The path the directory behind the handle's descriptor is at.
WsPlace == CHOOSE x \in Places : mvPlace[x] = "ws"

\* os.rename (source, destination) of a directory: the destination must not
\* exist or be an empty directory.
RenameOutcome(source, destination) ==
    IF mvPlace[source] # "ws" THEN "OSError"
    ELSE IF mvPlace[destination] \in {"none", "empty"} THEN "ok"
    ELSE "OSError"

\* self.directory = destination
DirectoryAfterMove_kept(directory, destination) == directory

DirectoryAfterMove(directory, destination) == destination

\* Workspace.move (destination)
Workspace_move(destination, gc) ==
    /\ mvPc = "open"
    /\ mvMoves < MaxMoves
    /\ destination # mvDir
    /\ mvMoves' = mvMoves + 1
    /\ mvDest' = destination
    /\ IF RenameOutcome(mvDir, destination) # "ok"
       THEN /\ gc = "ok"
            /\ mvRes' = RenameOutcome(mvDir, destination)
            /\ UNCHANGED <<mvPlace, mvDir, mvRooted>>
       ELSE /\ mvPlace' = [mvPlace EXCEPT ![mvDir] = "none", ![destination] = "ws"]
            /\ mvDir' = DirectoryAfterMove(mvDir, destination)
            \* ensureGcroots: guix repl addRoots.scm self.directory
            /\ mvRooted' = IF gc = "ok" THEN mvRooted \cup {mvDir'} ELSE mvRooted
            /\ mvRes' = gc
    /\ UNCHANGED <<mvPending, mvFlushed, mvStray, mvPc>>
    /\ UNCHANGED restOfMove

\* A mutator is called on the handle's metadata.
move_modifies ==
    /\ mvPc = "open"
    /\ ~mvPending
    /\ mvPending' = TRUE
    /\ mvFlushed' = FALSE
    /\ UNCHANGED <<mvPlace, mvDir, mvRooted, mvStray, mvPc, mvMoves, mvDest, mvRes>>
    /\ UNCHANGED restOfMove

\* _writeMetadata: with self.chdir (): os.chdir (self.dirfd); the lock, the
\* temporary file and the metadata file are named relative to it.
FlushTarget(fdPlace, directory) == fdPlace

\* ws.close () at the end of the with block.
move_close(lock) ==
    /\ mvPc = "open"
    /\ lock \in {"ok", "Busy"}
    /\ mvPending \/ lock = "ok"
    /\ mvPc' = "closed"
    /\ IF mvPending /\ lock = "ok"
       THEN LET t == FlushTarget(WsPlace, mvDir) IN
            /\ mvFlushed' = (mvPlace[t] = "ws")
            /\ mvStray' = IF mvPlace[t] = "ws" THEN mvStray ELSE mvStray \cup {t}
            /\ mvPending' = FALSE
       ELSE UNCHANGED <<mvFlushed, mvStray, mvPending>>
    /\ UNCHANGED <<mvPlace, mvDir, mvRooted, mvMoves, mvDest, mvRes>>
    /\ UNCHANGED restOfMove

NextMove ==
    \/ \E destination \in Places : \E gc \in ToolOutcomes :
          Workspace_move(destination, gc)
    \/ move_modifies
    \/ \E lock \in {"ok", "Busy"} : move_close(lock)

(***************************************************************************)
(* setPermissions and getPermissions (filesystem.py) on a small tree: the  *)
(* directory "dir", its subdirectory "sub" and the regular file "file" in  *)
(* "sub".  An ACL maps the entries to rights; rights are written without   *)
(* dashes, as fromPermset returns them.                                    *)
(***************************************************************************)
MaxAclOps == 2

Nodes == {"dir", "sub", "file"}

DirNodes == {"dir", "sub"}

\* The nodes 'setfacl -R path' visits.
Under(path) == IF path = "dir" THEN Nodes ELSE {"sub", "file"}

Rights == {"", "r", "rx", "rw", "rwx"}

Absent == "absent"

\* PermissionTarget.USER and GROUP; the qualifier is empty or a name.
Targets == {"u", "g"}

NoQualifier == ""

NamedUser == "alice"

NamedGroup == "g1"

Qualifiers == {NoQualifier, NamedUser, NamedGroup}

\* The entry 'target:qualifier' of an ACL.
Entry(target, qualifier) == <<target, qualifier>>

Entries == {Entry("u", NoQualifier), Entry("g", NoQualifier),
            Entry("u", NamedUser), Entry("g", NamedGroup)}

\* The owner and the owning group of every node.
OwnerName == "owner"

OwnerGroup == "staff"

NoAcl == [e \in Entries |-> Absent]

BaseAcl(n) ==
    [e \in Entries |->
        IF e = Entry("u", NoQualifier) THEN (IF n \in DirNodes THEN "rwx" ELSE "rw")
        ELSE IF e = Entry("g", NoQualifier) THEN (IF n \in DirNodes THEN "rx" ELSE "r")
        ELSE Absent]

NoCall ==
    [kind |-> "none", target |-> "u", qualifier |-> NoQualifier, path |-> "dir",
     remove |-> FALSE, default |-> FALSE, recursive |-> FALSE, res |-> "none"]

TypeAcl ==
    /\ aclNfs \in BOOLEAN
    /\ acl \in [Nodes -> [Entries -> Rights \cup {Absent}]]
    /\ dacl \in [DirNodes -> [Entries -> Rights \cup {Absent}]]
    /\ aclOps \in 0..MaxAclOps
    /\ aclOp.kind \in {"none", "set", "get"}
    /\ aclOp.res \in {"none", "ok", "ExecutionFailed", "NotImplementedError"}

AclStart ==
    /\ acl = [n \in Nodes |-> BaseAcl(n)]
    /\ dacl = [n \in DirNodes |-> NoAcl]
    /\ aclOps = 0
    /\ aclOp = NoCall

AclIdle == AclStart /\ aclNfs = FALSE

InitAcl == AclStart /\ aclNfs \in BOOLEAN

\* The X of setfacl: x on a directory, and on a file that has x for someone.
ResolveX(permissions, n) ==
    IF permissions = "rX"
    THEN (IF n \in DirNodes \/ \E e \in Entries : acl[n][e] \in {"rx", "rwx"}
          THEN "rx" ELSE "r")
    ELSE IF permissions = "rwX"
    THEN (IF n \in DirNodes \/ \E e \in Entries : acl[n][e] \in {"rx", "rwx"}
          THEN "rwx" ELSE "rw")
    ELSE IF permissions = "---" THEN ""
    ELSE permissions

\* if remove and qualifier: cmd.append ('-x') else: cmd.append ('-m')
Deletes_never(remove, qualifier) == FALSE

Deletes(remove, qualifier) == remove /\ qualifier # NoQualifier

\* if remove: permissions = '---'
Requested(permissions, remove) == IF remove THEN "---" ELSE permissions

\* What setfacl makes of the ACL a of node n.
Setfacl(a, n, target, qualifier, permissions, remove) ==
    [a EXCEPT ![Entry(target, qualifier)] =
        IF Deletes(remove, qualifier) THEN Absent
        ELSE ResolveX(Requested(permissions, remove), n)]

\* setPermissions (target, qualifier, permissions, path, remove, default,
\* recursive); out: how setfacl ends.
setPermissions(target, qualifier, permissions, path, remove, default, recursive, out) ==
    /\ aclOps < MaxAclOps
    /\ Entry(target, qualifier) \in Entries
    /\ remove => permissions = "r"        \* overwritten below
    /\ aclOps' = aclOps + 1
    /\ LET visited == IF recursive THEN Under(path) ELSE {path}
           res == IF aclNfs THEN "NotImplementedError" ELSE out
       IN  /\ aclNfs => out = "ok"
           /\ aclOp' = [kind |-> "set", target |-> target, qualifier |-> qualifier,
                        path |-> path, remove |-> remove, default |-> default,
                        recursive |-> recursive, res |-> res]
           /\ IF res # "ok"
              THEN UNCHANGED <<acl, dacl>>
              ELSE IF default
              THEN /\ dacl' = [n \in DirNodes |->
                                 IF n \in visited
                                 THEN Setfacl(dacl[n], n, target, qualifier,
                                              permissions, remove)
                                 ELSE dacl[n]]
                   /\ UNCHANGED acl
              ELSE /\ acl' = [n \in Nodes |->
                                IF n \in visited
                                THEN Setfacl(acl[n], n, target, qualifier,
                                             permissions, remove)
                                ELSE acl[n]]
                   /\ UNCHANGED dacl
    /\ UNCHANGED aclNfs
    /\ UNCHANGED restOfAcl

\* fromUid: name = getpwuid (s.st_uid).pw_name, whatever uid is passed;
\* fromGid: name = getgrgid (gid).gr_name.
fromUid(uidName) == OwnerName

fromGid(gidName) == gidName

\* getPermissions (path) on a local file system: the access ACL of the node
\* as user, group, acl.user and acl.group; each a set of <<name, rights>>.
getPermissions(n) ==
    [user |-> {<<fromUid(OwnerName), acl[n][Entry("u", NoQualifier)] \o "Tt">>},
     group |-> {<<fromGid(OwnerGroup), acl[n][Entry("g", NoQualifier)]>>},
     aclUser |-> {<<fromUid(e[2]), acl[n][e]>> :
                    e \in {x \in Entries : x[1] = "u" /\ x[2] # NoQualifier
                                               /\ acl[n][x] # Absent}},
     aclGroup |-> {<<fromGid(e[2]), acl[n][e]>> :
                    e \in {x \in Entries : x[1] = "g" /\ x[2] # NoQualifier
                                               /\ acl[n][x] # Absent}}]

\* A call of getPermissions (path).
snapshot(path) ==
    /\ aclOps < MaxAclOps
    /\ aclOps' = aclOps + 1
    /\ aclOp' = [NoCall EXCEPT !.kind = "get", !.path = path,
                     !.res = IF aclNfs THEN "NotImplementedError" ELSE "ok"]
    /\ UNCHANGED <<aclNfs, acl, dacl>>
    /\ UNCHANGED restOfAcl

GrantBits == {"r", "rX"}

NextAcl ==
    \/ \E target \in Targets : \E qualifier \in Qualifiers :
       \E permissions \in GrantBits : \E path \in DirNodes :
       \E remove, default, recursive \in BOOLEAN : \E out \in ToolOutcomes :
          setPermissions(target, qualifier, permissions, path, remove, default,
                         recursive, out)
    \/ \E path \in Nodes : snapshot(path)

(***************************************************************************)
(* doshare (cli.py): for every target the access ACL and the default ACL   *)
(* of the workspace directory are set recursively, then, unless rights are *)
(* removed, every ancestor directory is given rX inside try/except.        *)
(***************************************************************************)
NumTargets == 2     \* the targets named on the command line
NumAncestors == 2   \* the directories above the workspace directory

ShareTargets == 1..NumTargets

Ancestors == 1..NumAncestors

ShareResults == {"none", "0", "2", "ExecutionFailed", "NotImplementedError"}

TypeShare ==
    /\ shPc \in {"idle", "start", "access", "default", "parents", "format", "done"}
    /\ shRemove \in BOOLEAN
    /\ shT \in 1..(NumTargets + 1)
    /\ shA \in 1..(NumAncestors + 1)
    /\ shApplied \subseteq (ShareTargets \X {"access", "default"})
    /\ shAncFailed \subseteq (ShareTargets \X Ancestors)
    /\ shWsFailed \in BOOLEAN
    /\ shRes \in ShareResults

ShareStart ==
    /\ shT = 1 /\ shA = 1 /\ shApplied = {}
    /\ shAncFailed = {} /\ shWsFailed = FALSE /\ shRes = "none"

ShareIdle == ShareStart /\ shPc = "idle" /\ shRemove = FALSE

InitShare == ShareStart /\ shPc = "start" /\ shRemove \in BOOLEAN

\* The workspace is opened; one in the home directory is not shared unless
\* forced.
doshare_begin(inHome) ==
    /\ shPc = "start"
    /\ IF inHome
       THEN shPc' = "done" /\ shRes' = "2"
       ELSE shPc' = "access" /\ UNCHANGED shRes
    /\ UNCHANGED <<shRemove, shT, shA, shApplied, shAncFailed, shWsFailed>>
    /\ UNCHANGED restOfShare

\* The target after this one, or formatWorkspace after the last.
NextTarget ==
    /\ shT' = shT + 1
    /\ shA' = 1
    /\ shPc' = IF shT = NumTargets THEN "format" ELSE "access"

\* setPermissions (target, g, bits, ws.directory, recursive=True,
\* remove=args.remove), and the same with default=True: outside any try.
share_workspace(which, out) ==
    /\ shPc = which
    /\ which \in {"access", "default"}
    /\ IF out # "ok"
       THEN /\ shWsFailed' = TRUE
            /\ shPc' = "done"
            /\ shRes' = out
            /\ UNCHANGED <<shT, shA, shApplied>>
       ELSE /\ shApplied' = shApplied \cup {<<shT, which>>}
            /\ UNCHANGED <<shWsFailed, shRes>>
            /\ IF which = "access" THEN shPc' = "default" /\ UNCHANGED <<shT, shA>>
               ELSE IF shRemove THEN NextTarget
               ELSE shPc' = "parents" /\ UNCHANGED <<shT, shA>>
    /\ UNCHANGED <<shRemove, shAncFailed>>
    /\ UNCHANGED restOfShare

\* try: setPermissions (target, g, 'rX', p, recursive=False)
\* except Exception: logger.debug
ParentRaises_propagated(out) == out # "ok"

ParentRaises(out) == FALSE

share_parent(out) ==
    /\ shPc = "parents"
    /\ shAncFailed' = IF out = "ok" THEN shAncFailed
                      ELSE shAncFailed \cup {<<shT, shA>>}
    /\ IF ParentRaises(out)
       THEN shPc' = "done" /\ shRes' = out /\ UNCHANGED <<shT, shA>>
       ELSE /\ UNCHANGED shRes
            /\ IF shA = NumAncestors THEN NextTarget
               ELSE shA' = shA + 1 /\ UNCHANGED <<shT, shPc>>
    /\ UNCHANGED <<shRemove, shApplied, shWsFailed>>
    /\ UNCHANGED restOfShare

\* formatWorkspace (args, ws), which lists the packages with guix; return 0
share_format(out) ==
    /\ shPc = "format"
    /\ shPc' = "done"
    /\ shRes' = IF out = "ok" THEN "0" ELSE out
    /\ UNCHANGED <<shRemove, shT, shA, shApplied, shAncFailed, shWsFailed>>
    /\ UNCHANGED restOfShare

NextShare ==
    \/ \E inHome \in BOOLEAN : doshare_begin(inHome)
    \/ \E which \in {"access", "default"} : \E out \in GrantOutcomes :
          share_workspace(which, out)
    \/ \E out \in GrantOutcomes : share_parent(out)
    \/ \E out \in ToolOutcomes : share_format(out)

(***************************************************************************)
(* Workspace.nameToDir (workspace.py): r.sub ('_', unidecode (name.lower    *)
(* ())).strip ('_') with r = [^a-z0-9]+.  A name is a sequence of          *)
(* characters; the characters that are not ASCII are written by a name.    *)
(***************************************************************************)
MaxName == 3

NameChars ==
    {"a", "A", "7", " ", "_",
     "e-acute",         \* U+00E9, transliterated "e"
     "E-ACUTE",         \* U+00C9, lowercased to U+00E9
     "bei",             \* U+5317, transliterated "Bei "
     "euro",            \* U+20AC, transliterated "EUR"
     "snowman"}         \* U+2603, transliterated ""

Names == UNION {[1..n -> NameChars] : n \in 0..MaxName}

\* str.lower () of one character.
Lower(c) ==
    CASE c = "A" -> "a"
      [] c = "E-ACUTE" -> "e-acute"
      [] OTHER -> c

\* unidecode () of one character: ASCII characters.
Unidecode(c) ==
    CASE c = "e-acute" -> <<"e">>
      [] c = "E-ACUTE" -> <<"E">>
      [] c = "bei" -> <<"B", "e", "i", " ">>
      [] c = "euro" -> <<"E", "U", "R">>
      [] c = "snowman" -> <<>>
      [] OTHER -> <<c>>

RECURSIVE Transliterate(_)
Transliterate(name) ==
    IF name = <<>> THEN <<>>
    ELSE Unidecode(Lower(Head(name))) \o Transliterate(Tail(name))

\* The characters of [a-z0-9] and of [A-Za-z0-9] that occur.
SlugChars == {"a", "e", "i", "7"}

AsciiAlnum == SlugChars \cup {"A", "B", "E", "U", "R"}

\* r.sub ('_', text): every run of other characters becomes one underscore.
RECURSIVE SubRuns(_, _)
SubRuns(text, inRun) ==
    IF text = <<>> THEN <<>>
    ELSE IF Head(text) \in SlugChars
    THEN <<Head(text)>> \o SubRuns(Tail(text), FALSE)
    ELSE IF inRun THEN SubRuns(Tail(text), TRUE)
    ELSE <<"_">> \o SubRuns(Tail(text), TRUE)

\* text.strip ('_')
RECURSIVE LStrip(_)
LStrip(text) ==
    IF text # <<>> /\ Head(text) = "_" THEN LStrip(Tail(text)) ELSE text

RECURSIVE RStrip(_)
RStrip(text) ==
    IF text # <<>> /\ text[Len(text)] = "_"
    THEN RStrip(SubSeq(text, 1, Len(text) - 1)) ELSE text

Strip(text) == RStrip(LStrip(text))

\* 'unnamed_project'
Placeholder ==
    <<"u", "n", "n", "a", "m", "e", "d", "_", "p", "r", "o", "j", "e", "c", "t">>

nameToDir(name) ==
    LET subdir == Strip(SubRuns(Transliterate(name), FALSE))
    IN  IF subdir = <<>> THEN Placeholder ELSE subdir

NotCalled == <<"?">>

SlugIdle == nmIn = <<>> /\ nmOut = NotCalled /\ nmCalled = FALSE

InitSlug == nmIn \in Names /\ nmOut = NotCalled /\ nmCalled = FALSE

(***************************************************************************)
(* Workspace.nameToPath (workspace.py, cli.py): the loop over the          *)
(* candidates suggestedDir/(subdir + ext), while other processes make      *)
(* directories in suggestedDir.                                            *)
(***************************************************************************)
MaxSuffix == 3      \* the numbers secrets.randbelow draws are 0..MaxSuffix

\* ext = '' and ext = f'_{n}'
NoExt == <<>>

Numbered(n) == <<n>>

Exts == {NoExt} \cup {Numbered(n) : n \in 0..MaxSuffix}

PathIdle ==
    /\ npSuggested = "absent" /\ npTaken = {} /\ npExt = NoExt
    /\ npPc = "idle" /\ npRes = <<"none">>

InitPath ==
    /\ npSuggested \in {"absent", "file", "dir"}
    /\ npTaken \in SUBSET Exts
    /\ npSuggested # "dir" => npTaken = {}
    /\ npExt = NoExt
    /\ npPc = "start"
    /\ npRes = <<"none">>

TypeName ==
    /\ nmIn \in Names
    /\ nmCalled \in BOOLEAN
    /\ npSuggested \in {"absent", "file", "dir"}
    /\ npTaken \subseteq Exts
    /\ npExt \in Exts
    /\ npPc \in {"idle", "start", "loop", "done"}

\* A call of nameToDir (name).
nameToDir_called ==
    /\ ~nmCalled
    /\ nmCalled' = TRUE
    /\ nmOut' = nameToDir(nmIn)
    /\ UNCHANGED <<nmIn, npSuggested, npTaken, npExt, npPc, npRes>>
    /\ UNCHANGED restOfName

\* nameToPath: if suggestedDir.exists (): if suggestedDir.is_dir (): ...
\* else: raise ValueError; else: directory = suggestedDir
nameToPath_begin ==
    /\ npPc = "start"
    /\ IF npSuggested = "absent"
       THEN npPc' = "done" /\ npRes' = <<"suggested">>
       ELSE IF npSuggested = "file"
       THEN npPc' = "done" /\ npRes' = <<"ValueError">>
       ELSE npPc' = "loop" /\ UNCHANGED npRes
    /\ UNCHANGED <<nmIn, nmOut, nmCalled, npSuggested, npTaken, npExt>>
    /\ UNCHANGED restOfName

\* if not directory.exists (): break
Free_unchecked(ext) == TRUE

Free(ext) == ext \notin npTaken

\* One turn of the loop: directory = suggestedDir / (subdir + ext); leave
\* when it does not exist, else draw ext = f'_{secrets.randbelow (2**16)}'.
nameToPath_loop(drawn) ==
    /\ npPc = "loop"
    /\ IF Free(npExt)
       THEN /\ npPc' = "done"
            /\ npRes' = <<"child", npExt>>
            /\ UNCHANGED npExt
       ELSE /\ npExt' = Numbered(drawn)
            /\ UNCHANGED <<npPc, npRes>>
    /\ UNCHANGED <<nmIn, nmOut, nmCalled, npSuggested, npTaken>>
    /\ UNCHANGED restOfName

\* Another process makes the directory suggestedDir/(subdir + ext).
name_taken(ext) ==
    /\ npPc \in {"start", "loop"}
    /\ npSuggested = "dir"
    /\ ext \notin npTaken
    /\ npTaken' = npTaken \cup {ext}
    /\ UNCHANGED <<nmIn, nmOut, nmCalled, npSuggested, npExt, npPc, npRes>>
    /\ UNCHANGED restOfName

NextSlug == nameToDir_called

NextPath ==
    \/ nameToPath_begin
    \/ \E drawn \in 0..MaxSuffix : nameToPath_loop(drawn)
    \/ \E ext \in Exts : name_taken(ext)

(***************************************************************************)
(* Workspace.chdir (workspace.py): oldWorkingDir = os.getcwd (); os.chdir  *)
(* (self.dirfd); yield; try: os.chdir (oldWorkingDir) except               *)
(* FileNotFoundError: pass.  The operations that use it are _writeMetadata,*)
(* packages, ensureGuix and ensureProfile, which calls the last two inside *)
(* its own scope.                                                          *)
(***************************************************************************)
MaxCalls == 2

WsDir == "workspace"

CallerDirs == {"home", "work"}

ChdirOps == {"_writeMetadata", "packages", "ensureGuix", "ensureProfile"}

\* The steps of an operation: entering a scope, work inside it that can
\* raise, leaving the scope.
Scoped == <<"enter", "body", "exit">>

Program(op) ==
    IF op = "ensureProfile"
    THEN <<"enter", "body">> \o Scoped \o Scoped \o <<"body", "exit">>
    ELSE Scoped

\* What the work inside the scope raises: softlock raises Busy, run raises
\* ExecutionFailed, open and os.rename raise OSError.
Raises(op) ==
    CASE op = "_writeMetadata" -> {"Busy", "OSError"}
      [] op = "packages" -> {"ExecutionFailed"}
      [] OTHER -> {"Busy", "ExecutionFailed"}

ChdirResults == {"none", "returned", "Busy", "OSError", "ExecutionFailed", "FileNotFoundError"}

TypeChdir ==
    /\ chCwd \in CallerDirs \cup {WsDir}
    /\ chGone \subseteq CallerDirs
    /\ chStack \in Seq(CallerDirs \cup {WsDir})
    /\ chOp \in ChdirOps \cup {"none"}
    /\ chI \in 0..Len(Program("ensureProfile"))
    /\ chBefore \in CallerDirs \cup {WsDir}
    /\ chPc \in {"idle", "running", "done"}
    /\ chRes \in ChdirResults
    /\ chCalls \in 0..MaxCalls

ChdirIdle ==
    /\ chCwd = "home" /\ chGone = {} /\ chStack = <<>> /\ chOp = "none"
    /\ chI = 0 /\ chBefore = "home" /\ chPc = "idle" /\ chRes = "none"
    /\ chCalls = 0

InitChdir ==
    /\ chCwd \in CallerDirs /\ chGone = {} /\ chStack = <<>> /\ chOp = "none"
    /\ chI = 0 /\ chBefore = chCwd /\ chPc = "idle" /\ chRes = "none"
    /\ chCalls = 0

AtStep(kind) ==
    /\ chPc = "running"
    /\ chI < Len(Program(chOp))
    /\ Program(chOp)[chI + 1] = kind

\* The operation ends: it returns or an exception leaves it.
Ends(e) ==
    /\ chPc' = "done"
    /\ chRes' = e

\* The caller calls an operation of the workspace.
chdir_call(op) ==
    /\ chPc \in {"idle", "done"}
    /\ chCalls < MaxCalls
    /\ chCalls' = chCalls + 1
    /\ chOp' = op
    /\ chI' = 0
    /\ chBefore' = chCwd
    /\ chStack' = <<>>
    /\ chPc' = "running"
    /\ chRes' = "none"
    /\ UNCHANGED <<chCwd, chGone>>
    /\ UNCHANGED restOfChdir

\* oldWorkingDir = os.getcwd (); os.chdir (self.dirfd)
chdir_enter ==
    /\ AtStep("enter")
    /\ IF chCwd \in chGone
       THEN /\ Ends("FileNotFoundError")
            /\ UNCHANGED <<chCwd, chStack, chI>>
       ELSE /\ chStack' = Append(chStack, chCwd)
            /\ chCwd' = WsDir
            /\ chI' = chI + 1
            /\ UNCHANGED <<chPc, chRes>>
    /\ UNCHANGED <<chGone, chOp, chBefore, chCalls>>
    /\ UNCHANGED restOfChdir

\* What an exception thrown into the generator at its yield runs of the
\* code after the yield: nothing, there is no try ... finally around it.
RestoredOnRaise(old) == chCwd

\* The work inside the scope returns or raises; an exception passes every
\* open scope.
chdir_body(out) ==
    /\ AtStep("body")
    /\ IF out = "ok"
       THEN /\ chI' = chI + 1
            /\ UNCHANGED <<chCwd, chStack, chPc, chRes>>
       ELSE /\ out \in Raises(chOp)
            /\ Ends(out)
            /\ chCwd' = RestoredOnRaise(chStack[1])
            /\ chStack' = <<>>
            /\ UNCHANGED chI
    /\ UNCHANGED <<chGone, chOp, chBefore, chCalls>>
    /\ UNCHANGED restOfChdir

\* try: os.chdir (oldWorkingDir) except FileNotFoundError: pass
chdir_exit ==
    /\ AtStep("exit")
    /\ LET old == chStack[Len(chStack)]
       IN  chCwd' = IF old \in chGone THEN chCwd ELSE old
    /\ chStack' = SubSeq(chStack, 1, Len(chStack) - 1)
    /\ chI' = chI + 1
    /\ IF chI + 1 = Len(Program(chOp))
       THEN Ends("returned")
       ELSE UNCHANGED <<chPc, chRes>>
    /\ UNCHANGED <<chGone, chOp, chBefore, chCalls>>
    /\ UNCHANGED restOfChdir

\* Another process removes a directory the caller was in.
chdir_removed(d) ==
    /\ chPc = "running"
    /\ d \notin chGone
    /\ chGone' = chGone \cup {d}
    /\ UNCHANGED <<chCwd, chStack, chOp, chI, chBefore, chPc, chRes, chCalls>>
    /\ UNCHANGED restOfChdir

NextChdir ==
    \/ \E op \in ChdirOps : chdir_call(op)
    \/ chdir_enter
    \/ \E out \in {"ok", "Busy", "OSError", "ExecutionFailed"} : chdir_body(out)
    \/ chdir_exit
    \/ \E d \in CallerDirs : chdir_removed(d)

(***************************************************************************)
(* uid.py: proquints.  u16ToQuint turns 16 bits into consonant, vowel,     *)
(* consonant, vowel, consonant; uintToQuint joins the quints of an         *)
(* integer, the quint of the highest 16 bits first.                        *)
(***************************************************************************)
MaxQuints == 2

toConsonant ==
    <<"b", "d", "f", "g", "h", "j", "k", "l", "m", "n", "p", "r", "s", "t", "v", "z">>

toVowel == <<"a", "i", "o", "u">>

\* 2**n
RECURSIVE Pow2(_)
Pow2(n) == IF n = 0 THEN 1 ELSE 2 * Pow2(n - 1)

\* (v >> shift) & mask, for mask = 2**bits - 1 and v >= 0
Bits_one(v, shift, bits) == (v \div Pow2(shift)) % 2

Bits(v, shift, bits) == (v \div Pow2(shift)) % Pow2(bits)

\* assert 0 <= v < 2**16; the five letters, the highest bits first.
u16ToQuint(v) ==
    <<toConsonant[Bits(v, 12, 4) + 1],
      toVowel[Bits(v, 10, 2) + 1],
      toConsonant[Bits(v, 6, 4) + 1],
      toVowel[Bits(v, 4, 2) + 1],
      toConsonant[Bits(v, 0, 4) + 1]>>

\* An integer is written by its sign and its 16 bit words, the lowest
\* first, one more of them than the longest token has quints.
Width == MaxQuints + 1

Words == 0..65535

Big(neg, ws) ==
    [neg |-> neg, words |-> [i \in 1..Width |-> IF i <= Len(ws) THEN ws[i] ELSE 0]]

\* (v >> (x*16)) & 0xffff
Word(v, x) == v.words[x + 1]

\* 0 <= v < 2**(length*16)
InRange(v, length) ==
    /\ ~v.neg
    /\ \A i \in (length + 1)..Width : v.words[i] = 0

\* [u16ToQuint ((v>>(x*16))&0xffff) for x in range (length)]
QuintList(v, length) == [i \in 1..length |-> u16ToQuint(Word(v, i - 1))]

\* reversed (l)
Reversed(l) == [i \in 1..Len(l) |-> l[Len(l) + 1 - i]]

\* '-'.join (l)
RECURSIVE JoinHyphen(_)
JoinHyphen(l) ==
    IF l = <<>> THEN <<>>
    ELSE IF Len(l) = 1 THEN l[1]
    ELSE l[1] \o <<"-">> \o JoinHyphen(Tail(l))

AssertionFailed == <<"AssertionError">>

uintToQuint(v, length) ==
    IF ~InRange(v, length)
    THEN AssertionFailed
    ELSE JoinHyphen(Reversed(QuintList(v, length)))

\* The words the integers are made of: the fields at their lowest and
\* highest values.
SampleU16 == {0, 2, 1008, 64512, 65535}

\* The integers of the range, 2**(length*16) added to them, and -1.
QuintInputs(length) ==
    {Big(FALSE, ws \o <<over>>) : ws \in [1..length -> SampleU16], over \in {0, 1}}
        \cup {Big(TRUE, <<1>>)}

NoToken == <<"?">>

QuintIdle ==
    /\ qLen = 1 /\ qV = Big(FALSE, <<>>) /\ qW = Big(FALSE, <<>>) /\ qOutV = NoToken /\ qOutW = NoToken
    /\ qCalled = FALSE

InitQuint ==
    /\ qLen \in 1..MaxQuints
    /\ qV \in QuintInputs(qLen)
    /\ qW \in QuintInputs(qLen)
    /\ qOutV = NoToken /\ qOutW = NoToken
    /\ qCalled = FALSE

\* Two calls of uintToQuint with the same length.
uintToQuint_called ==
    /\ ~qCalled
    /\ qCalled' = TRUE
    /\ qOutV' = uintToQuint(qV, qLen)
    /\ qOutW' = uintToQuint(qW, qLen)
    /\ UNCHANGED <<qLen, qV, qW>>
    /\ UNCHANGED restOfQuint

NextQuint == uintToQuint_called

(***************************************************************************)
(* manifest.py: modifyManifest.  The text of a manifest is                 *)
(*   (specifications->manifest <before> '( <items> ) <after> )             *)
(* where the items are strings, white space and comments, and <before>     *)
(* and <after> are white space or comments.                                *)
(***************************************************************************)
MaxItems == 2

MaxSpecs == 2

Packages == {"a", "b"}

\* "p" as a string of the list, white space, and a comment, which may hold
\* the text "p" itself.
Str(p) == [kind |-> "string", name |-> p]

Space == [kind |-> "space", name |-> "none"]

Comment(p) == [kind |-> "comment", name |-> p]

ItemTokens ==
    {Str(p) : p \in Packages} \cup {Space} \cup {Comment(p) : p \in Packages \cup {"none"}}

ManifestTexts ==
    [before : {"space", "comment"},
     items : UNION {[1..n -> ItemTokens] : n \in 0..MaxItems},
     after : {"nothing", "space", "comment"},
     raised : {"none"}]

\* '+p', '-p' and 'p'
ManifestSpecs ==
    UNION {[1..n -> [sign : {"+", "-", ""}, name : Packages]] : n \in 0..MaxSpecs}

\* What Guile reads as the list of packages: the strings, in order.
RECURSIVE PackageList(_)
PackageList(items) ==
    IF items = <<>> THEN <<>>
    ELSE IF Head(items).kind = "string"
    THEN <<Head(items).name>> \o PackageList(Tail(items))
    ELSE PackageList(Tail(items))

\* r = (\(specifications->manifest\s+'\()(.*)\)\): \s+ is white space
\* only and the two closing parentheses are next to each other.
Matches(text) == text.before = "space" /\ text.after = "nothing"

\* s in l, for s = '"p"': a search in the text of the items.
Contains(l, p) == \E i \in 1..Len(l) : l[i].name = p

\* l.replace (s, ''): every occurrence of "p" goes, from comments too.
RECURSIVE Replace(_, _)
Replace(l, p) ==
    IF l = <<>> THEN <<>>
    ELSE IF Head(l) = Str(p) THEN Replace(Tail(l), p)
    ELSE IF Head(l) = Comment(p) THEN <<Comment("none")>> \o Replace(Tail(l), p)
    ELSE <<Head(l)>> \o Replace(Tail(l), p)

\* The loop of modifyPackages over the specs.
RECURSIVE modifyPackages(_, _)
modifyPackages(l, specs) ==
    IF specs = <<>> THEN l
    ELSE LET a == Head(specs)
             next == IF a.sign = "+"
                     THEN IF ~Contains(l, a.name)
                          THEN l \o <<Str(a.name), Space>>      \* l += s + '\n'
                          ELSE l
                     ELSE IF a.sign = "-"
                     THEN Replace(l, a.name)
                     ELSE <<Str(a.name)>>                       \* replace all
         IN  modifyPackages(next, Tail(specs))

\* ret, replacements = r.subn (modifyPackages, manifest)
modifyManifest(manifest, specs) ==
    IF ~Matches(manifest)
    THEN [manifest EXCEPT !.raised = "ValueError"]
    ELSE [manifest EXCEPT !.items = modifyPackages(manifest.items, specs)]

NoManifest == [before |-> "space", items |-> <<>>, after |-> "nothing", raised |-> "none"]

ManifestIdle ==
    /\ mfIn = NoManifest /\ mfSpecs = <<>> /\ mfOut = NoManifest
    /\ mfCalled = FALSE

InitManifest ==
    /\ mfIn \in ManifestTexts
    /\ mfSpecs \in ManifestSpecs
    /\ mfOut = NoManifest
    /\ mfCalled = FALSE

modifyManifest_called ==
    /\ ~mfCalled
    /\ mfCalled' = TRUE
    /\ mfOut' = modifyManifest(mfIn, mfSpecs)
    /\ UNCHANGED <<mfIn, mfSpecs>>
    /\ UNCHANGED restOfManifest

NextManifest == modifyManifest_called

(***************************************************************************)
(* cli.py: doPackageModify reads the manifest, writes the modified one     *)
(* over it, calls ensureProfile and writes the old text back when that     *)
(* raises ExecutionFailed.                                                 *)
(***************************************************************************)
MaxOthers == 2

\* The texts of the manifest: two a user wrote, and what modifyManifest
\* makes of a text.
UserTexts == {"t0", "t1"}

Modified(text) == <<"modified", text>>

ManifestFileTexts == {<<"user", t>> : t \in UserTexts} \cup {Modified(<<"user", t>>) : t \in UserTexts}

ModifyPositions ==
    {"idle", "opened", "read", "written", "failed", "reverted", "rebuilt", "done"}

\* What ensureProfile of cli.py raises: run raises ExecutionFailed, softlock
\* raises Busy.
ProfileOutcomes == {"ok", "ExecutionFailed", "Busy"}

ModifyResults == {"none", "0", "1", "2", "ExecutionFailed", "Busy"}

TypeModify ==
    /\ pmPc \in ModifyPositions
    /\ pmFile \in ManifestFileTexts
    /\ pmRead \in ManifestFileTexts \cup {<<"nothing">>}
    /\ pmFailure \in ProfileOutcomes \cup {"none"}
    /\ pmBuilds \in Seq(ManifestFileTexts) /\ Len(pmBuilds) <= 2
    /\ pmRes \in ModifyResults
    /\ pmOthers \in 0..MaxOthers

ModifyIdle ==
    /\ pmPc = "idle" /\ pmFile = <<"user", "t0">> /\ pmRead = <<"nothing">>
    /\ pmFailure = "none" /\ pmBuilds = <<>> /\ pmRes = "none" /\ pmOthers = 0

InitModify ==
    /\ pmPc = "idle" /\ pmFile \in {<<"user", t>> : t \in UserTexts}
    /\ pmRead = <<"nothing">>
    /\ pmFailure = "none" /\ pmBuilds = <<>> /\ pmRes = "none" /\ pmOthers = 0

\* ws = Workspace.open (args.directory), return 1 for WorkspaceException
doPackageModify_open(valid) ==
    /\ pmPc = "idle"
    /\ IF valid
       THEN pmPc' = "opened" /\ UNCHANGED pmRes
       ELSE pmPc' = "done" /\ pmRes' = "1"
    /\ UNCHANGED <<pmFile, pmRead, pmFailure, pmBuilds, pmOthers>>
    /\ UNCHANGED restOfModify

\* manifest = fd.read ()
doPackageModify_read ==
    /\ pmPc = "opened"
    /\ pmRead' = pmFile
    /\ pmPc' = "read"
    /\ UNCHANGED <<pmFile, pmFailure, pmBuilds, pmRes, pmOthers>>
    /\ UNCHANGED restOfModify

\* newManifest = modifyManifest (manifest, args.packages), return 2 for
\* ValueError; else write manifest.new and rename it over the manifest.
doPackageModify_write(parses) ==
    /\ pmPc = "read"
    /\ IF parses
       THEN /\ pmFile' = Modified(pmRead)
            /\ pmPc' = "written"
            /\ UNCHANGED pmRes
       ELSE /\ pmPc' = "done" /\ pmRes' = "2"
            /\ UNCHANGED pmFile
    /\ UNCHANGED <<pmRead, pmFailure, pmBuilds, pmOthers>>
    /\ UNCHANGED restOfModify

\* The exceptions of ensureProfile the handler of doPackageModify catches.
Caught(out) == out = "ExecutionFailed"

\* try: ws.ensureProfile () except ExecutionFailed: ...
doPackageModify_ensureProfile(out) ==
    /\ pmPc = "written"
    /\ pmBuilds' = Append(pmBuilds, pmFile)
    /\ pmFailure' = IF out = "ok" THEN "none" ELSE out
    /\ IF out = "ok"
       THEN pmPc' = "done" /\ pmRes' = "0"          \* formatWorkspace
       ELSE IF Caught(out)
       THEN pmPc' = "failed" /\ UNCHANGED pmRes
       ELSE pmPc' = "done" /\ pmRes' = out
    /\ UNCHANGED <<pmFile, pmRead, pmOthers>>
    /\ UNCHANGED restOfModify

\* fd.write (manifest); os.rename (newManifestPath, ws.manifestpath)
doPackageModify_revert ==
    /\ pmPc = "failed"
    /\ pmFile' = pmRead
    /\ pmPc' = "reverted"
    /\ UNCHANGED <<pmRead, pmFailure, pmBuilds, pmRes, pmOthers>>
    /\ UNCHANGED restOfModify

\* ws.ensureProfile (); raise
doPackageModify_rebuild(out) ==
    /\ pmPc = "reverted"
    /\ pmBuilds' = Append(pmBuilds, pmFile)
    /\ pmPc' = "done"
    /\ pmRes' = IF out = "ok" THEN pmFailure ELSE out
    /\ UNCHANGED <<pmFile, pmRead, pmFailure, pmOthers>>
    /\ UNCHANGED restOfModify

\* Another process replaces the manifest.
manifest_edited(t) ==
    /\ pmPc \notin {"idle", "done"}
    /\ pmOthers < MaxOthers
    /\ pmFile # <<"user", t>>
    /\ pmFile' = <<"user", t>>
    /\ pmOthers' = pmOthers + 1
    /\ UNCHANGED <<pmPc, pmRead, pmFailure, pmBuilds, pmRes>>
    /\ UNCHANGED restOfModify

NextModify ==
    \/ \E valid \in BOOLEAN : doPackageModify_open(valid)
    \/ doPackageModify_read
    \/ \E parses \in BOOLEAN : doPackageModify_write(parses)
    \/ \E out \in ProfileOutcomes : doPackageModify_ensureProfile(out)
    \/ doPackageModify_revert
    \/ \E out \in ProfileOutcomes : doPackageModify_rebuild(out)
    \/ \E t \in UserTexts : manifest_edited(t)

(***************************************************************************)
(* A handle made by the constructor alone: ws = cls (d), the first step    *)
(* of Workspace.create and Workspace.open (workspace.py).                  *)
(***************************************************************************)
\* Workspace.__init__ (d) on a directory that exists: resetMetadata fills a
\* new ModificationAwareDict, whose __init__ ends with modified = False.
Workspace_new(h) ==
    /\ hpc[h] = "none"
    /\ Workspace_init(metaFile.st # "nodir") = "ok"
    /\ hpc' = [hpc EXCEPT ![h] = "open"]
    /\ doc' = [doc EXCEPT ![h] = resetMetadata(randomId)]
    /\ modified' = [modified EXCEPT ![h] = FALSE]
    /\ hres' = [hres EXCEPT ![h] = "handle"]
    /\ touched' = [touched EXCEPT ![h] = FALSE]
    /\ edits' = [edits EXCEPT ![h] = 0]
    /\ openedSt' = [openedSt EXCEPT ![h] = "none"]
    /\ UNCHANGED <<metaFile, tmpFile, metaLock>>
    /\ UNCHANGED restOfMeta

NextHandle == NextMeta \/ \E h \in Handles : Workspace_new(h)

(***************************************************************************)
(* ensureProfile (workspace.py) while another process commits an edit of   *)
(* the manifest (doPackageModify of cli.py renames manifest.new over       *)
(* manifest.scm without a lock): the test of the mtimes, guix package      *)
(* reading the manifest, guix package switching the profile, os.utime.     *)
(* The guix binary is older than the profile and the mandatory packages    *)
(* are installed.                                                          *)
(***************************************************************************)
MaxCommits == 2

MaxEnsures == 3

FreshPositions == {"idle", "starting", "running", "built"}

FreshResults == {"none", "fresh", "rebuilt", "ExecutionFailed"}

TypeFresh ==
    /\ fClock \in Nat
    /\ fManV \in 1..(MaxCommits + 1) /\ fManM \in 0..fClock
    /\ fProfV \in 0..(MaxCommits + 1) /\ fProfM \in 0..fClock
    /\ fPc \in FreshPositions
    /\ fReadV \in 0..(MaxCommits + 1)
    /\ fRes \in FreshResults
    /\ fCalls \in 0..MaxEnsures

FreshIdle ==
    /\ fClock = 0 /\ fManV = 1 /\ fManM = 0 /\ fProfV = 0 /\ fProfM = 0
    /\ fPc = "idle" /\ fReadV = 0 /\ fRes = "none" /\ fCalls = 0

\* A workspace without a profile, or with one built from its manifest.
InitFresh ==
    /\ fManV = 1 /\ fManM = 1
    /\ fProfV \in {0, 1}
    /\ fProfM = (IF fProfV = 0 THEN 0 ELSE 2)
    /\ fClock = 2
    /\ fPc = "idle" /\ fReadV = 0 /\ fRes = "none" /\ fCalls = 0

\* The test of ensureProfile, inside its lock.
fresh_check ==
    /\ fPc = "idle"
    /\ fCalls < MaxEnsures
    /\ fCalls' = fCalls + 1
    /\ IF Stale(fProfV # 0, fProfM, fManM, 0, TRUE)
       THEN fPc' = "starting" /\ fRes' = "none"
       ELSE fPc' = "idle" /\ fRes' = "fresh"
    /\ UNCHANGED <<fClock, fManV, fManM, fProfV, fProfM, fReadV>>
    /\ UNCHANGED restOfFresh

\* guix package -p .guix-profile -m manifest.scm reads the manifest.
fresh_guix_reads ==
    /\ fPc = "starting"
    /\ fReadV' = fManV
    /\ fPc' = "running"
    /\ UNCHANGED <<fClock, fManV, fManM, fProfV, fProfM, fRes, fCalls>>
    /\ UNCHANGED restOfFresh

\* guix package ends: it has switched the symlink to the profile built, or
\* failed.
fresh_guix_ends(ok) ==
    /\ fPc = "running"
    /\ IF ok
       THEN /\ fProfV' = fReadV
            /\ fClock' = fClock + 1
            /\ fProfM' = fClock + 1
            /\ fPc' = "built"
            /\ UNCHANGED fRes
       ELSE /\ fPc' = "idle"
            /\ fRes' = "ExecutionFailed"
            /\ UNCHANGED <<fClock, fProfV, fProfM>>
    /\ UNCHANGED <<fManV, fManM, fReadV, fCalls>>
    /\ UNCHANGED restOfFresh

\* now = time.time (); os.utime (profilePath, times=(now, now))
TouchTime(profileMtime, now) == now

fresh_utime ==
    /\ fPc = "built"
    /\ fProfM' = TouchTime(fProfM, fClock)
    /\ fPc' = "idle"
    /\ fRes' = "rebuilt"
    /\ UNCHANGED <<fClock, fManV, fManM, fProfV, fReadV, fCalls>>
    /\ UNCHANGED restOfFresh

\* Another process renames a new manifest over manifest.scm.
manifest_committed ==
    /\ fManV <= MaxCommits
    /\ fManV' = fManV + 1
    /\ fClock' = fClock + 1
    /\ fManM' = fClock + 1
    /\ UNCHANGED <<fProfV, fProfM, fPc, fReadV, fRes, fCalls>>
    /\ UNCHANGED restOfFresh

NextFresh ==
    \/ fresh_check
    \/ fresh_guix_reads
    \/ \E ok \in BOOLEAN : fresh_guix_ends(ok)
    \/ fresh_utime
    \/ manifest_committed

(***************************************************************************)
(* Handles of several processes on one workspace, each setting a key of    *)
(* its own (domodify of cli.py, Workspace.open and close of workspace.py). *)
(***************************************************************************)
\* The key handle h sets: the first handle the name, the others one of the
\* keys that come with created.
KeyOf(h) == IF \A g \in Handles : h <= g THEN "name" ELSE "created"

ModifyStep(h) ==
    \/ Workspace_open(h)
    \/ md_update(h, KeyOf(h))
    \/ Workspace_close(h)
    \/ wm_open_tmp(h)
    \/ wm_dump(h)
    \/ wm_rename(h)
    \/ wm_unlock(h)

NextModifyMeta == \E h \in Handles : ModifyStep(h)

(***************************************************************************)
(* docreate (cli.py) called by several processes with the same name and    *)
(* the same existing parent directory: Workspace.create chooses the        *)
(* directory with nameToPath, docreate copies the skeleton or makes the    *)
(* directory, initWorkspace fills it.                                      *)
(***************************************************************************)
NumCreators == 2

Creators == 1..NumCreators

RacePositions == {"choosing", "chosen", "makedirs", "made", "done"}

RaceResults == {"none", "0", "FileExistsError"}

TypeRace ==
    /\ rcSkel \in BOOLEAN
    /\ rcTaken \subseteq Exts
    /\ rcPc \in [Creators -> RacePositions]
    /\ rcExt \in [Creators -> Exts]
    /\ rcInit \in [Creators -> BOOLEAN]
    /\ rcRes \in [Creators -> RaceResults]

RaceStart ==
    /\ rcPc = [c \in Creators |-> "choosing"]
    /\ rcExt = [c \in Creators |-> NoExt]
    /\ rcInit = [c \in Creators |-> FALSE]
    /\ rcRes = [c \in Creators |-> "none"]

RaceIdle == rcSkel = FALSE /\ rcTaken = {} /\ RaceStart

InitRace ==
    /\ rcSkel \in BOOLEAN
    /\ rcTaken \in {{}, {NoExt}}
    /\ RaceStart

\* One turn of the loop of nameToPath.
race_nameToPath(c, drawn) ==
    /\ rcPc[c] = "choosing"
    /\ IF rcExt[c] \notin rcTaken
       THEN rcPc' = [rcPc EXCEPT ![c] = "chosen"] /\ UNCHANGED rcExt
       ELSE rcExt' = [rcExt EXCEPT ![c] = Numbered(drawn)] /\ UNCHANGED rcPc
    /\ UNCHANGED <<rcSkel, rcTaken, rcInit, rcRes>>
    /\ UNCHANGED restOfRace

\* copydir (d, ws.directory) for the first skeleton directory, then
\* "if not ws.directory.is_dir ()".
race_skeleton(c) ==
    /\ rcPc[c] = "chosen"
    /\ IF rcSkel
       THEN /\ rcTaken' = rcTaken \cup {rcExt[c]}      \* rsync makes or fills it
            /\ rcPc' = [rcPc EXCEPT ![c] = "made"]
       ELSE /\ rcPc' = [rcPc EXCEPT ![c] =
                          IF rcExt[c] \in rcTaken THEN "made" ELSE "makedirs"]
            /\ UNCHANGED rcTaken
    /\ UNCHANGED <<rcSkel, rcExt, rcInit, rcRes>>
    /\ UNCHANGED restOfRace

\* os.makedirs (ws.directory)
race_makedirs(c) ==
    /\ rcPc[c] = "makedirs"
    /\ IF makedirs(rcExt[c] \in rcTaken) = "ok"
       THEN /\ rcTaken' = rcTaken \cup {rcExt[c]}
            /\ rcPc' = [rcPc EXCEPT ![c] = "made"]
            /\ UNCHANGED rcRes
       ELSE /\ rcPc' = [rcPc EXCEPT ![c] = "done"]
            /\ rcRes' = [rcRes EXCEPT ![c] = "FileExistsError"]
            /\ UNCHANGED rcTaken
    /\ UNCHANGED <<rcSkel, rcExt, rcInit>>
    /\ UNCHANGED restOfRace

\* initWorkspace (ws); formatWorkspace; return 0
race_initWorkspace(c) ==
    /\ rcPc[c] = "made"
    /\ rcInit' = [rcInit EXCEPT ![c] = TRUE]
    /\ rcPc' = [rcPc EXCEPT ![c] = "done"]
    /\ rcRes' = [rcRes EXCEPT ![c] = "0"]
    /\ UNCHANGED <<rcSkel, rcTaken, rcExt>>
    /\ UNCHANGED restOfRace

NextRace ==
    \E c \in Creators :
        \/ \E drawn \in 0..MaxSuffix : race_nameToPath(c, drawn)
        \/ race_skeleton(c)
        \/ race_makedirs(c)
        \/ race_initWorkspace(c)

vars == <<lockVars, metaVars, lifeVars, syncVars, decodeVars, runVars,
          createVars, moveVars, aclVars, shareVars, nameVars, chdirVars,
          quintVars, manifestVars, modifyVars, freshVars, raceVars>>

Init == InitLock /\ MetaIdle /\ LifeIdle /\ SyncIdle /\ DecodeIdle /\ RunIdle /\ CreateIdle /\ MoveIdle /\ AclIdle /\ ShareIdle /\ SlugIdle /\ PathIdle /\ ChdirIdle /\ QuintIdle /\ ManifestIdle /\ ModifyIdle /\ FreshIdle /\ RaceIdle

LockStep(p) ==
    \/ softlock_makedirs(p)
    \/ softlock_opendir(p)
    \/ softlock_create(p)
    \/ block_returns(p)
    \/ block_raises(p)
    \/ holder_killed(p)

NextLock == \E p \in Actors : LockStep(p)

Next == NextLock

Spec == Init /\ [][Next]_vars

NextTamper ==
    \/ \E p \in TamperedActors : LockStep(p)
    \/ lockfile_unlinked
    \/ parent_renamed

SpecTamper == Init /\ [][NextTamper]_vars

InitMetaSpec == InitLock /\ InitMeta /\ LifeIdle /\ SyncIdle /\ DecodeIdle /\ RunIdle /\ CreateIdle /\ MoveIdle /\ AclIdle /\ ShareIdle /\ SlugIdle /\ PathIdle /\ ChdirIdle /\ QuintIdle /\ ManifestIdle /\ ModifyIdle /\ FreshIdle /\ RaceIdle

SpecMeta == InitMetaSpec /\ [][NextMeta]_vars

InitLifeSpec == InitLock /\ InitLife /\ SyncIdle /\ DecodeIdle /\ RunIdle /\ CreateIdle /\ MoveIdle /\ AclIdle /\ ShareIdle /\ SlugIdle /\ PathIdle /\ ChdirIdle /\ QuintIdle /\ ManifestIdle /\ ModifyIdle /\ FreshIdle /\ RaceIdle

SpecLife == InitLifeSpec /\ [][NextLife]_vars

InitSyncSpec == InitLock /\ MetaIdle /\ LifeIdle /\ InitSync /\ DecodeIdle /\ RunIdle /\ CreateIdle /\ MoveIdle /\ AclIdle /\ ShareIdle /\ SlugIdle /\ PathIdle /\ ChdirIdle /\ QuintIdle /\ ManifestIdle /\ ModifyIdle /\ FreshIdle /\ RaceIdle

\* One process synchronising the profile while another flushes metadata.
TheSyncer == CHOOSE p \in SyncProcs : \A q \in SyncProcs : p <= q

TheWriter == CHOOSE h \in Handles : \A g \in Handles : h <= g

NextSyncMeta == SyncStep(TheSyncer) \/ MetaStep(TheWriter)

InitSyncMeta == InitLock /\ InitMeta /\ LifeIdle /\ InitSync /\ DecodeIdle /\ RunIdle /\ CreateIdle /\ MoveIdle /\ AclIdle /\ ShareIdle /\ SlugIdle /\ PathIdle /\ ChdirIdle /\ QuintIdle /\ ManifestIdle /\ ModifyIdle /\ FreshIdle /\ RaceIdle

SpecSyncMeta == InitSyncMeta /\ [][NextSyncMeta]_vars

\* A package upgrade, a synchronisation and a metadata flush in one workspace.
TheUpgrader == CHOOSE p \in SyncProcs : p # TheSyncer

NextUpgrade ==
    \/ \E p \in SyncProcs : SyncStep(p)
    \/ doPackageUpgrade_replace(TheUpgrader)
    \/ doPackageUpgrade_revert(TheUpgrader)

SpecUpgrade == InitSyncSpec /\ [][NextUpgrade]_vars

InitCreateSpec ==
    /\ InitLock /\ MetaIdle /\ LifeIdle /\ SyncIdle /\ DecodeIdle /\ RunIdle
    /\ InitCreate /\ MoveIdle /\ AclIdle /\ ShareIdle /\ SlugIdle /\ PathIdle /\ ChdirIdle
    /\ QuintIdle /\ ManifestIdle /\ ModifyIdle /\ FreshIdle /\ RaceIdle

SpecCreate == InitCreateSpec /\ [][NextCreate]_vars

InitMoveSpec ==
    /\ InitLock /\ MetaIdle /\ LifeIdle /\ SyncIdle /\ DecodeIdle /\ RunIdle
    /\ CreateIdle /\ InitMove /\ AclIdle /\ ShareIdle /\ SlugIdle /\ PathIdle /\ ChdirIdle
    /\ QuintIdle /\ ManifestIdle /\ ModifyIdle /\ FreshIdle /\ RaceIdle

SpecMove == InitMoveSpec /\ [][NextMove]_vars

InitAclSpec ==
    /\ InitLock /\ MetaIdle /\ LifeIdle /\ SyncIdle /\ DecodeIdle /\ RunIdle
    /\ CreateIdle /\ MoveIdle /\ InitAcl /\ ShareIdle /\ SlugIdle /\ PathIdle /\ ChdirIdle
    /\ QuintIdle /\ ManifestIdle /\ ModifyIdle /\ FreshIdle /\ RaceIdle

SpecAcl == InitAclSpec /\ [][NextAcl]_vars

InitShareSpec ==
    /\ InitLock /\ MetaIdle /\ LifeIdle /\ SyncIdle /\ DecodeIdle /\ RunIdle
    /\ CreateIdle /\ MoveIdle /\ AclIdle /\ InitShare /\ SlugIdle /\ PathIdle /\ ChdirIdle
    /\ QuintIdle /\ ManifestIdle /\ ModifyIdle /\ FreshIdle /\ RaceIdle

SpecShare == InitShareSpec /\ [][NextShare]_vars

InitSlugSpec ==
    /\ InitLock /\ MetaIdle /\ LifeIdle /\ SyncIdle /\ DecodeIdle /\ RunIdle
    /\ CreateIdle /\ MoveIdle /\ AclIdle /\ ShareIdle /\ InitSlug /\ PathIdle /\ ChdirIdle
    /\ QuintIdle /\ ManifestIdle /\ ModifyIdle /\ FreshIdle /\ RaceIdle

SpecSlug == InitSlugSpec /\ [][NextSlug]_vars

InitPathSpec ==
    /\ InitLock /\ MetaIdle /\ LifeIdle /\ SyncIdle /\ DecodeIdle /\ RunIdle
    /\ CreateIdle /\ MoveIdle /\ AclIdle /\ ShareIdle /\ SlugIdle /\ InitPath /\ ChdirIdle
    /\ QuintIdle /\ ManifestIdle /\ ModifyIdle /\ FreshIdle /\ RaceIdle

SpecPath == InitPathSpec /\ [][NextPath]_vars

InitChdirSpec ==
    /\ InitLock /\ MetaIdle /\ LifeIdle /\ SyncIdle /\ DecodeIdle /\ RunIdle
    /\ CreateIdle /\ MoveIdle /\ AclIdle /\ ShareIdle /\ SlugIdle /\ PathIdle
    /\ InitChdir /\ QuintIdle /\ ManifestIdle /\ ModifyIdle /\ FreshIdle
    /\ RaceIdle

SpecChdir == InitChdirSpec /\ [][NextChdir]_vars

InitQuintSpec ==
    /\ InitLock /\ MetaIdle /\ LifeIdle /\ SyncIdle /\ DecodeIdle /\ RunIdle
    /\ CreateIdle /\ MoveIdle /\ AclIdle /\ ShareIdle /\ SlugIdle /\ PathIdle
    /\ ChdirIdle /\ InitQuint /\ ManifestIdle /\ ModifyIdle /\ FreshIdle
    /\ RaceIdle

SpecQuint == InitQuintSpec /\ [][NextQuint]_vars

InitManifestSpec ==
    /\ InitLock /\ MetaIdle /\ LifeIdle /\ SyncIdle /\ DecodeIdle /\ RunIdle
    /\ CreateIdle /\ MoveIdle /\ AclIdle /\ ShareIdle /\ SlugIdle /\ PathIdle
    /\ ChdirIdle /\ QuintIdle /\ InitManifest /\ ModifyIdle /\ FreshIdle
    /\ RaceIdle

SpecManifest == InitManifestSpec /\ [][NextManifest]_vars

InitModifySpec ==
    /\ InitLock /\ MetaIdle /\ LifeIdle /\ SyncIdle /\ DecodeIdle /\ RunIdle
    /\ CreateIdle /\ MoveIdle /\ AclIdle /\ ShareIdle /\ SlugIdle /\ PathIdle
    /\ ChdirIdle /\ QuintIdle /\ ManifestIdle /\ InitModify /\ FreshIdle
    /\ RaceIdle

SpecModify == InitModifySpec /\ [][NextModify]_vars

SpecHandle == InitMetaSpec /\ [][NextHandle]_vars

InitFreshSpec ==
    /\ InitLock /\ MetaIdle /\ LifeIdle /\ SyncIdle /\ DecodeIdle /\ RunIdle
    /\ CreateIdle /\ MoveIdle /\ AclIdle /\ ShareIdle /\ SlugIdle /\ PathIdle
    /\ ChdirIdle /\ QuintIdle /\ ManifestIdle /\ ModifyIdle /\ InitFresh
    /\ RaceIdle

SpecFresh == InitFreshSpec /\ [][NextFresh]_vars

SpecModifyMeta == InitMetaSpec /\ [][NextModifyMeta]_vars

InitRaceSpec ==
    /\ InitLock /\ MetaIdle /\ LifeIdle /\ SyncIdle /\ DecodeIdle /\ RunIdle
    /\ CreateIdle /\ MoveIdle /\ AclIdle /\ ShareIdle /\ SlugIdle /\ PathIdle
    /\ ChdirIdle /\ QuintIdle /\ ManifestIdle /\ ModifyIdle /\ FreshIdle
    /\ InitRace

SpecRace == InitRaceSpec /\ [][NextRace]_vars

InitDecodeSpec ==
    /\ InitLock /\ MetaIdle /\ LifeIdle /\ SyncIdle /\ InitDecode /\ RunIdle
    /\ CreateIdle /\ MoveIdle /\ AclIdle /\ ShareIdle /\ SlugIdle /\ PathIdle /\ ChdirIdle
    /\ QuintIdle /\ ManifestIdle /\ ModifyIdle /\ FreshIdle /\ RaceIdle

SpecDecode == InitDecodeSpec /\ [][NextDecode]_vars

InitRunSpec ==
    /\ InitLock /\ MetaIdle /\ LifeIdle /\ SyncIdle /\ DecodeIdle /\ InitRun
    /\ CreateIdle /\ MoveIdle /\ AclIdle /\ ShareIdle /\ SlugIdle /\ PathIdle /\ ChdirIdle
    /\ QuintIdle /\ ManifestIdle /\ ModifyIdle /\ FreshIdle /\ RaceIdle

SpecRun == InitRunSpec /\ [][NextRun]_vars

SpecSync == InitSyncSpec /\ [][NextSync]_vars

(***************************************************************************)
(* Claims about the softlock.                                              *)
(***************************************************************************)
Holders == {p \in Actors : lpc[p] = "held"}

\* p takes its create step.
Tries(p) == lpc[p] = "create" /\ lpc'[p] # "create"

\* p leaves its guarded block through the finally clause.
Leaves(p) == lpc[p] = "held" /\ lpc'[p] = "idle"

\* C1: of the callers contending for one lock path exactly one acquires it:
\* never two callers hold it, a create step that finds the lock file ends at
\* once with Busy, leaves the file and the holder as they were, and a create
\* step that finds no lock file acquires.
C1_Contention ==
    /\ [](Cardinality(Holders) <= 1)
    /\ [][\A p \in Actors :
             /\ (Tries(p) /\ lockFile[dirfd[p]] # Nobody) =>
                   /\ lres'[p] = "Busy"
                   /\ lpc'[p] = "idle"
                   /\ lockFile' = lockFile
                   /\ Holders' = Holders
             /\ (Tries(p) /\ lockFile[dirfd[p]] = Nobody) =>
                   /\ lpc'[p] = "held"
                   /\ lockFile'[dirfd[p]] = p]_vars

C1_Witness ==
    \E p, q \in Actors :
        /\ p # q
        /\ lpc[p] = "held"
        /\ lockFile[dirfd[p]] = p
        /\ lpc[q] = "idle"
        /\ lres[q] = "Busy"

\* C2: the holder releases on every exit path: when the guarded block returns
\* or raises, the lock file is gone afterwards and the block's own outcome is
\* what the caller sees; a lock file only exists while its creator is inside
\* the block (or was killed there); and a create step taken while no caller is
\* inside a block acquires the lock.
C2_ReleaseOnExit ==
    /\ [](\A d \in DirObjs :
             lockFile[d] # Nobody => lpc[lockFile[d]] \in {"held", "dead"})
    /\ [][\A p \in Actors :
             /\ Leaves(p) =>
                   /\ lockFile'[dirfd[p]] = Nobody
                   /\ lres'[p] \in {"returned", "raised"}
             /\ (Tries(p) /\ \A q \in Actors : lpc[q] \notin {"held", "dead"}) =>
                   lpc'[p] = "held"]_vars

C2_Witness ==
    \E p, q \in Actors :
        /\ p # q
        /\ lpc[p] = "idle"
        /\ lres[p] = "raised"
        /\ lpc[q] = "held"

LeavesTampered(p) ==
    Leaves(p) /\ (lockFile[dirfd[p]] # p \/ pathDir[ThePath] # dirfd[p])

\* C4 as claimed: a release after the lock file was deleted or the parent
\* directory renamed does not raise, and afterwards there is a lock file
\* neither under the original path nor in the renamed directory.
C4_NoLockFileLeft ==
    [][\A p \in Actors :
          LeavesTampered(p) =>
              /\ lres'[p] \in {"returned", "raised"}
              /\ lockFile'[dirfd[p]] = Nobody
              /\ pathDir'[ThePath] # NoDir =>
                     lockFile'[pathDir'[ThePath]] = Nobody]_vars

\* C4 as amended: such a release does not raise, and afterwards no lock file
\* is left in the directory the holder locked, wherever that directory is now,
\* and none that the holder created; a lock file under the original path is
\* then one that another caller created in a directory made there after the
\* rename.
C4_OwnLockFileGone ==
    [][\A p \in Actors :
          LeavesTampered(p) =>
              /\ lres'[p] \in {"returned", "raised"}
              /\ lockFile'[dirfd[p]] = Nobody
              /\ \A d \in DirObjs : lockFile'[d] # p
              /\ (pathDir'[ThePath] # NoDir /\ lockFile'[pathDir'[ThePath]] # Nobody) =>
                     /\ pathDir'[ThePath] # dirfd[p]
                     /\ lockFile'[pathDir'[ThePath]] # p]_vars

C4_Witness ==
    \E p, q \in Actors :
        /\ lpc[p] = "idle" /\ lres[p] = "returned" /\ sawTamper[p]
        /\ pathDir[ThePath] # dirfd[p]
        /\ lpc[q] = "idle" /\ lres[q] = "raised" /\ sawTamper[q]
        /\ pathDir[ThePath] = dirfd[q]


(***************************************************************************)
(* Claims about the metadata store.                                        *)
(***************************************************************************)
FlushStates == {"wm_tmp", "wm_dump", "wm_unlock"}

\* C5: the metadata file is replaced atomically.  Every step that changes
\* the canonical metadata file is the rename of the temporary file by the
\* handle holding the metadata lock, and it installs the complete
\* serialisation of that handle's document; no other step of a flush, and no
\* kill of a writer between the write and the rename, changes the canonical
\* file, so a reader finds the complete old or the complete new document.
C5_AtomicReplace ==
    [][metaFile' # metaFile =>
          \E h \in Handles :
              /\ hpc[h] = "wm_dump"
              /\ hpc'[h] = "wm_unlock"
              /\ metaLock = h
              /\ metaLock' = h
              /\ tmpFile.lines = Serialize(doc[h])
              /\ metaFile' = YamlFile(Serialize(doc[h]))
              /\ tmpFile' = AbsentFile]_vars

\* A flush has replaced the file, and a later writer was killed with the
\* temporary file half written: the canonical file is still complete.
C5_Witness ==
    \E h \in Handles :
        /\ hpc[h] = "dead"
        /\ tmpFile.st = "yaml"
        /\ Len(tmpFile.lines) = 1
        /\ metaFile.st = "yaml"
        /\ metaFile \notin InitFiles
        /\ "_id" \in DOMAIN Parse(metaFile.lines)
        /\ "created" \in DOMAIN Parse(metaFile.lines)

\* C6: closing a handle whose metadata no mutator touched since it was
\* opened or last flushed writes nothing: the close ends at once, and the
\* metadata file, the temporary file and the metadata lock are as before.
C6_CleanCloseWritesNothing ==
    [][\A h \in Handles :
          (/\ Closable(h) /\ ~touched[h]
           /\ hpc'[h] # "open"
           /\ <<hpc'[h], hres'[h]>> # <<hpc[h], hres[h]>>) =>
              /\ hpc'[h] = "closed"
              /\ hres'[h] = "clean"
              /\ metaFile' = metaFile
              /\ tmpFile' = tmpFile
              /\ metaLock' = metaLock]_vars

\* A handle was opened and closed with no mutation in between while another
\* handle has the workspace open.
C6_Witness ==
    \E h, g \in Handles :
        /\ h # g
        /\ hpc[h] = "closed"
        /\ hres[h] = "clean"
        /\ openedSt[h] = "yaml"
        /\ hpc[g] = "open"

\* C8: the identity is stable.  Every handle opened on the workspace, also
\* after other handles have flushed changes of the user's keys, carries the
\* identity the workspace was created with, and so does the metadata file.
\* (No operation of the handles changes the _id key.)
C8_StableIdentity ==
    /\ \A h \in Handles :
          hpc[h] \in {"open"} \cup FlushStates =>
              /\ "_id" \in DOMAIN doc[h]
              /\ doc[h]["_id"] = CreatedId
    /\ metaFile.st = "yaml" => IdsOf(Parse(metaFile.lines)) = {CreatedId}

\* Two handles are open after a flush has replaced the metadata file.
C8_Witness ==
    \E h, g \in Handles :
        /\ h # g
        /\ hpc[h] = "open"
        /\ hpc[g] = "open"
        /\ metaFile \notin InitFiles

\* C10: opening a directory that is no valid workspace (no directory, no
\* metadata file, a metadata file that cannot be read or does not hold a
\* mapping) fails with InvalidWorkspace and yields no handle.
C10_InvalidWorkspace ==
    \A h \in Handles :
        openedSt[h] \notin {"none", "yaml"} =>
            /\ hpc[h] = "closed"
            /\ hres[h] = "InvalidWorkspace"


(***************************************************************************)
(* Claims about creating, copying and importing.                           *)
(***************************************************************************)
\* C7: for every directory, once Workspace.create has run on it and its
\* handle is closed, Workspace.open on it yields a handle: the metadata file
\* has been written and parses.
C7_CreateThenOpen ==
    lifeOp = "create" =>
        /\ lifeRes = "ok"
        /\ dstMeta.st = "yaml"
        /\ OpenOutcome(dstMeta) = "handle"

\* C9: after a successful Workspace.copy, docopy or doimport the persisted
\* identity of the resulting workspace differs from the source's, and every
\* other key of the source has the same value in the result.
C9_CopyHasNewIdentity ==
    (lifeOp \in {"copy", "docopy", "doimport"} /\ lifeRes = "ok") =>
        LET src == Parse(metaFile.lines)
            dst == Parse(dstMeta.lines)
        IN  /\ dstMeta.st = "yaml"
            /\ IdsOf(dst) # {}
            /\ IdsOf(dst) # IdsOf(src)
            /\ \A k \in (DOMAIN src) \ {"_id"} :
                  k \in DOMAIN dst /\ dst[k] = src[k]


(***************************************************************************)
(* Claims about profile synchronisation.                                   *)
(***************************************************************************)
InProfile(p) == sop[p] = "ensureProfile" /\ spc[p] \in {"ep_in", "eg_in", "ep_check"}

\* p's call of ensureProfile takes its deciding step, having listed the
\* installed packages.
Decides(p) ==
    /\ spc[p] = "ep_check"
    /\ spc'[p] = "done"
    /\ ~(failedCmd'[p] /\ ~rebuilt'[p])

\* p's call of ensureGuix runs its body.
Pins(p) == spc[p] = "eg_in" /\ spc'[p] # "eg_in"

\* C11: ensureProfile invokes the rebuild if and only if, with what it finds
\* at check time, the profile is absent, or the manifest's mtime is strictly
\* newer than the profile's, or the guix binary profile's mtime is strictly
\* newer than the profile's, or a mandatory package is not installed; no
\* other step invokes it.
C11_RebuildIffStale ==
    [][\A p \in SyncProcs :
          /\ Decides(p) =>
                (rebuilt'[p] <=>
                    \/ ~profEx
                    \/ manM > profM
                    \/ guixM > profM
                    \/ ~havePk)
          /\ (rebuilt'[p] /\ ~rebuilt[p]) => Decides(p)]_vars

\* One call has rebuilt, a later one found the profile newer than the
\* manifest and the binary, the mandatory packages present, and has not.
C11_Witness ==
    \E p, q \in SyncProcs :
        /\ sop[p] = "ensureProfile" /\ spc[p] = "done" /\ sres[p] = "ok"
        /\ rebuilt[p]
        /\ sop[q] = "ensureProfile" /\ spc[q] = "done" /\ sres[q] = "ok"
        /\ ~rebuilt[q]
        /\ profEx /\ havePk /\ manM < profM /\ guixM < profM

\* C12: once a rebuild has succeeded, a following ensureProfile made with no
\* change to the manifest, the pinned binary or the mandatory packages does
\* not rebuild, also when guix left the profile's mtime untouched.
C12_NoRebuildWhenSettled ==
    [][\A p \in SyncProcs : (Decides(p) /\ settled) => ~rebuilt'[p]]_vars

\* C13: after an ensureGuix that completed, channels.scm is not newer than
\* the guix binary profile, and an ensureGuix that follows with no edit of
\* the channel file runs no guix pull.  (The staleness test of ensureProfile
\* does not read the mtime of channels.scm.)
C13_PinNotNewer ==
    [][/\ pinned' => (guixEx' /\ chanM' <= guixM')
       /\ \A p \in SyncProcs : (Pins(p) /\ pinned) => ~pulled'[p]]_vars

\* One call pulled and rewrote the pin, a later one found it and did not pull.
C13_Witness ==
    \E p, q \in SyncProcs :
        /\ pulled[p] /\ spc[p] \in {"ep_check", "done"}
        /\ sres[p] \in {"none", "ok"}
        /\ ~pulled[q] /\ ranCmd[q] /\ sop[q] = "ensureGuix" /\ sres[q] = "ok"
        /\ pinned

\* C14: of the processes calling ensureProfile at most one is between taking
\* and releasing the profile lock; a process answered with Busy has invoked
\* no package-manager command.
C14_LoserRunsNothing ==
    /\ Cardinality({p \in SyncProcs : InProfile(p)}) <= 1
    /\ \A p \in SyncProcs :
          sres[p] = "Busy" => (~ranCmd[p] /\ ~pulled[p] /\ ~rebuilt[p])

\* Two calls of ensureProfile: one holds the profile lock and has run guix,
\* the other was answered with Busy.
C14_Witness ==
    \E p, q \in SyncProcs :
        /\ sop[p] = "ensureProfile" /\ sres[p] = "Busy" /\ spc[p] = "done"
        /\ sop[q] = "ensureProfile" /\ spc[q] = "ep_check" /\ ranCmd[q]
        /\ profLock = q

\* C16: whichever way a call of ensureProfile or ensureGuix ends, the sync
\* lock files it created are gone when it has ended, and a sync lock file
\* created by another process is removed by no step but that process's own.
C16_SyncLocksReleased ==
    [][/\ \A p \in SyncProcs :
             spc'[p] = "done" => (profLock' # p /\ guixLock' # p)
       /\ \A q \in SyncProcs :
             /\ (profLock = q /\ profLock' # q) => spc'[q] = "done"
             /\ (guixLock = q /\ guixLock' # q) => spc'[q] \in {"done", "ep_check"}
             /\ (profLock = q /\ spc'[q] # "done") => profLock' = q]_vars

\* ensureProfile met Busy on the inner lock, held by an ensureGuix called on
\* its own: the profile lock is gone, the other's guix lock is there.
C16_Witness ==
    \E p, q \in SyncProcs :
        /\ sop[p] = "ensureProfile" /\ spc[p] = "done" /\ sres[p] = "Busy"
        /\ sop[q] = "ensureGuix" /\ spc[q] = "eg_in"
        /\ guixLock = q
        /\ profLock = Nobody

\* C19: an operation that ran a command which exited outside its permitted
\* codes does not end with a normal result.
C19_NoSwallowedFailure ==
    \A p \in SyncProcs : (spc[p] = "done" /\ failedCmd[p]) => sres[p] # "ok"


\* h's close tries to take the metadata lock.
TriesFlush(h) ==
    /\ Closable(h) /\ modified[h]
    /\ <<hpc'[h], hres'[h]>> # <<hpc[h], hres[h]>> \/ hres[h] = "Busy"
    /\ hpc'[h] \in {"closed", "wm_tmp"}
    /\ hres'[h] \in {"Busy", hres[h]}

\* C15: a metadata flush is answered with Busy only when the metadata lock
\* file exists; whether another process is inside ensureProfile or
\* ensureGuix, holding the sync locks, makes no difference: the flush takes
\* the metadata lock and goes on.
C15_FlushNotBlockedBySync ==
    [][\A h \in Handles :
          (TriesFlush(h) /\ metaLock = Nobody) =>
              (hpc'[h] = "wm_tmp" /\ metaLock' = h /\ hres'[h] # "Busy")]_vars

\* A flush has replaced the metadata file while the other process is inside
\* ensureProfile and ensureGuix, holding both sync locks.
C15_Witness ==
    \E h \in Handles : \E p \in SyncProcs :
        /\ profLock = p /\ guixLock = p /\ spc[p] = "eg_in"
        /\ hpc[h] = "wm_unlock"
        /\ metaLock = h
        /\ metaFile \notin InitFiles

\* The stderr names at least one failed derivation.
HasBuild(stderr) == \E i \in 1..Len(stderr) : IsBuild(stderr[i])

\* The package names of the derivations the stderr names, in its order.
DrvNames(stderr) ==
    LET m == SelectSeq(stderr, IsBuild)
    IN  [i \in 1..Len(m) |-> m[i].drv.name]

\* C17: when the stderr of the failed rebuild names failed derivations, the
\* failure raised is WorkspacePackageBuildFailure, carrying the package name
\* of every derivation named, in order.
C17_BuildFailureNamed ==
    (errOut # NotRaised /\ HasBuild(errIn)) =>
        errOut = Raised("WorkspacePackageBuildFailure", DrvNames(errIn))

\* C18: when the stderr names no failed derivation, a manifest that failed
\* to load raises WorkspaceBroken, and anything else raises the original
\* ExecutionFailed.
C18_UnclassifiedReRaised ==
    (errOut # NotRaised /\ ~HasBuild(errIn)) =>
        errOut = Raised(IF \E i \in 1..Len(errIn) : errIn[i] = LoadLine
                        THEN "WorkspaceBroken" ELSE "ExecutionFailed", NoNames)

\* C20: when the caller was interrupted and has surfaced a result, the
\* subprocess has ended, and it was killed only after SIGTERM had been sent
\* to it.
C20_OrderlyInterruption ==
    (interrupted /\ rpc = "done") =>
        (Ended(child) /\ (killSent => termSent))

\* C21: the metadata file changes only while the metadata lock file exists,
\* the profile only while the profile lock file exists, and the channel
\* file only while a sync lock file exists.
C21_WritesUnderLock ==
    [][/\ metaFile' # metaFile => metaLock # Nobody
       /\ (profM' # profM \/ profEx' # profEx \/ havePk' # havePk)
             => profLock # Nobody
       /\ (chanM' # chanM \/ pinned' # pinned)
             => (guixLock # Nobody \/ profLock # Nobody)]_vars

\* C22: during a creation, the synchronisation starts and files are written
\* into the workspace only when the owner's grant is applied, and the
\* garbage-collection roots are registered only when the synchronisation
\* has succeeded.
C22_GrantBeforeWrites ==
    [][/\ (crFiles' # crFiles \/ crSync' # crSync) => crGranted
       /\ (crRoots' /\ ~crRoots) => crSync = "ok"]_vars

\* C23: the workspace is at one path at a time; when a move has succeeded
\* the handle's directory is the destination, the workspace is there, roots
\* are registered for it and nothing is at the path it was moved from; a
\* close after it writes the pending metadata into the workspace and makes
\* files nowhere else.
C23_MoveRelocates ==
    /\ Cardinality({x \in Places : mvPlace[x] = "ws"}) = 1
    /\ mvStray = {}
    /\ mvRes = "ok" =>
          /\ mvDir = mvDest
          /\ mvPlace[mvDir] = "ws"
          /\ mvDir \in mvRooted
          /\ \A x \in Places \ {mvDir} : mvPlace[x] # "ws"
    /\ (mvPc = "closed" /\ ~mvPending) => mvFlushed

\* The workspace was moved twice, its metadata modified, and closed: the
\* edits are in the workspace at the last destination.
C23_Witness ==
    /\ mvRes = "ok" /\ mvMoves = 2 /\ mvPc = "closed"
    /\ mvFlushed /\ mvDir # HomePlace /\ mvPlace[HomePlace] = "none"
    /\ mvRooted = Places

\* The last call was a successful recursive setPermissions for the named
\* group on the access ACLs.
GroupCall(remove) ==
    /\ aclOp.kind = "set" /\ aclOp.res = "ok"
    /\ aclOp.target = "g" /\ aclOp.qualifier = NamedGroup
    /\ aclOp.recursive /\ ~aclOp.default
    /\ aclOp.remove = remove

\* C24: on a local file system, after a recursive grant of read rights to a
\* named group the snapshot of every node under the path reports the group
\* with read rights; after a recursive revoke the snapshot of every node
\* under the path reports no entry for the group.
C24_GrantRevokeRoundTrip ==
    /\ GroupCall(FALSE) =>
          \A n \in Under(aclOp.path) :
             \E g \in getPermissions(n).aclGroup :
                g[1] = NamedGroup /\ g[2] \in {"r", "rx"}
    /\ GroupCall(TRUE) =>
          \A n \in Under(aclOp.path) :
             \A g \in getPermissions(n).aclGroup : g[1] # NamedGroup

\* The group was granted read rights on the whole tree and then revoked on
\* the subdirectory: "dir" reports it, "sub" and "file" do not.
C24_Witness ==
    /\ GroupCall(TRUE) /\ aclOp.path = "sub" /\ aclOps = 2
    /\ <<NamedGroup, "r">> \in getPermissions("dir").aclGroup
    /\ getPermissions("sub").aclGroup = {}
    /\ getPermissions("file").aclGroup = {}

\* C25: on a local file system, a revoke with a qualifier deletes the entry
\* on every node it visits, and a revoke without a qualifier changes no ACL.
C25_RevokeOwnerIgnored ==
    [][(aclOps' # aclOps /\ aclOp'.kind = "set" /\ aclOp'.remove /\ ~aclNfs) =>
          IF aclOp'.qualifier = NoQualifier
          THEN acl' = acl /\ dacl' = dacl
          ELSE aclOp'.res = "ok" =>
                  \A n \in (IF aclOp'.recursive THEN Under(aclOp'.path)
                             ELSE {aclOp'.path}) :
                     LET e == Entry(aclOp'.target, aclOp'.qualifier) IN
                     IF aclOp'.default
                     THEN n \in DirNodes => dacl'[n][e] = Absent
                     ELSE acl'[n][e] = Absent]_vars

\* C26: on an NFS mount no call of setPermissions or getPermissions ends
\* with NotImplementedError.
C26_NfsSupported == aclNfs => aclOp.res # "NotImplementedError"

\* C27: a share in which setPermissions failed on the workspace directory
\* has ended with that error, the targets after it untouched; a share in
\* which it failed on ancestor directories only goes on: it ends only after
\* formatWorkspace, with both ACLs of the workspace directory set for
\* every target.
C27_ParentFailureSwallowed ==
    /\ shWsFailed =>
          /\ shPc = "done"
          /\ shRes \in {"ExecutionFailed", "NotImplementedError"}
          /\ shApplied # ShareTargets \X {"access", "default"}
    /\ (shAncFailed # {} /\ ~shWsFailed) =>
          /\ shPc # "done" => shRes = "none"
          /\ shPc = "done" =>
                (shT = NumTargets + 1 /\
                 shApplied = ShareTargets \X {"access", "default"})

\* A share has ended with 0 although setPermissions failed on every
\* ancestor for every target.
C27_Witness ==
    /\ shPc = "done" /\ shRes = "0" /\ ~shWsFailed
    /\ shAncFailed = ShareTargets \X Ancestors
    /\ shApplied = ShareTargets \X {"access", "default"}

\* C28: nameToPath returns the suggested path when nothing is there, raises
\* ValueError when a file is there, and otherwise returns a child whose
\* name did not exist in the step that chose it.
C28_ReturnedPathWasFree ==
    [][(npPc' = "done" /\ npPc # "done") =>
          CASE npSuggested = "absent" -> npRes' = <<"suggested">>
            [] npSuggested = "file" -> npRes' = <<"ValueError">>
            [] OTHER -> /\ npRes'[1] = "child"
                        /\ npRes'[2] = npExt
                        /\ npRes'[2] \notin npTaken]_vars

\* The name without extension and the first number drawn were taken; the
\* child returned carries another number.
C28_Witness ==
    /\ npPc = "done" /\ npRes[1] = "child"
    /\ npRes[2] # NoExt
    /\ NoExt \in npTaken
    /\ Cardinality(npTaken) >= 2
    /\ npRes[2] \notin npTaken

\* C29: what nameToDir returns is not empty, is made of [a-z0-9_], neither
\* begins nor ends with an underscore and has no two underscores in a row;
\* it is the placeholder exactly when the lowercased and transliterated
\* name has no ASCII letter or digit.
C29_SlugShape ==
    nmCalled =>
        /\ nmOut # <<>>
        /\ \A i \in 1..Len(nmOut) :
              nmOut[i] \in SlugChars \cup {"_"} \cup {Placeholder[j] : j \in 1..Len(Placeholder)}
        /\ nmOut[1] # "_" /\ nmOut[Len(nmOut)] # "_"
        /\ \A i \in 1..(Len(nmOut) - 1) : ~(nmOut[i] = "_" /\ nmOut[i + 1] = "_")
        /\ (nmOut = Placeholder) <=>
              ~(\E i \in 1..Len(Transliterate(nmIn)) :
                   Transliterate(nmIn)[i] \in AsciiAlnum)

\* C30: when an operation that runs inside a chdir scope has returned or
\* raised, the working directory is the one the caller had when calling it.
C30_CwdRestored ==
    chPc = "done" => chCwd = chBefore

\* C31: for 0 <= v < 2^(16n) uintToQuint (v, n) is n groups of consonant,
\* vowel, consonant, vowel, consonant joined by '-', the group of the
\* highest 16 bits first, and two different integers never give the same
\* token.
Consonants == {toConsonant[i] : i \in 1..Len(toConsonant)}

Vowels == {toVowel[i] : i \in 1..Len(toVowel)}

WellFormedToken(t, v) ==
    /\ Len(t) = 6 * qLen - 1
    /\ \A g \in 1..qLen :
         LET at == 6 * (g - 1)
         IN  /\ t[at + 1] \in Consonants /\ t[at + 2] \in Vowels
             /\ t[at + 3] \in Consonants /\ t[at + 4] \in Vowels
             /\ t[at + 5] \in Consonants
             /\ g < qLen => t[at + 6] = "-"
             /\ SubSeq(t, at + 1, at + 5) = u16ToQuint(v.words[qLen + 1 - g])

C31_QuintInjective ==
    qCalled =>
        /\ InRange(qV, qLen) => WellFormedToken(qOutV, qV)
        /\ InRange(qW, qLen) => WellFormedToken(qOutW, qW)
        /\ (InRange(qV, qLen) /\ InRange(qW, qLen) /\ qV # qW) => qOutV # qOutW

\* Two integers of two quints that differ only in the high quint.
C31_Witness ==
    /\ qCalled /\ qLen = 2
    /\ qV = Big(FALSE, <<2, 1008>>) /\ qW = Big(FALSE, <<2, 0>>)
    /\ qOutV # qOutW
    /\ qOutV # AssertionFailed /\ qOutW # AssertionFailed

\* C32: for specs that are all '+p' or '-p', modifyManifest returns a
\* manifest whose package list holds every added package exactly once, no
\* removed package, and every other package as often as before; with no
\* specs the package list is the one of the manifest.
Count(l, p) == Cardinality({i \in 1..Len(l) : l[i] = p})

Signed(sign) == {mfSpecs[i].name : i \in {j \in 1..Len(mfSpecs) : mfSpecs[j].sign = sign}}

C32_PackageListEdited ==
    (/\ mfCalled
     /\ Signed("") = {}
     /\ Signed("+") \cap Signed("-") = {}
     /\ \A p \in Packages : Count(PackageList(mfIn.items), p) <= 1) =>
        /\ mfOut.raised = "none"
        /\ \A p \in Packages :
             Count(PackageList(mfOut.items), p) =
                 IF p \in Signed("+") THEN 1
                 ELSE IF p \in Signed("-") THEN 0
                 ELSE Count(PackageList(mfIn.items), p)

\* C35: when doPackageModify ends with the error of an ensureProfile that
\* failed after the modified manifest was written, and nobody else wrote
\* the manifest, the manifest holds the text read before the edit and an
\* ensureProfile has run on that text.
C35_ManifestRestored ==
    (pmPc = "done" /\ pmFailure # "none" /\ pmOthers = 0) =>
        /\ pmFile = pmRead
        /\ \E i \in 1..Len(pmBuilds) : pmBuilds[i] = pmRead

\* C33: a close of a modified handle that finds the metadata lock file of
\* another process ends at once with Busy: the metadata file, the temporary
\* file and the lock file stay as they are, and the document stays modified.
C33_BusyFlushChangesNothing ==
    [][\A h \in Handles :
          (/\ hpc[h] = "open" /\ hpc'[h] # "open"
           /\ modified[h] /\ metaLock # Nobody) =>
              /\ hpc'[h] = "closed" /\ hres'[h] = "Busy"
              /\ metaFile' = metaFile /\ tmpFile' = tmpFile
              /\ metaLock' = metaLock
              /\ modified'[h] /\ doc'[h] = doc[h]]_vars

\* A handle with a change met Busy while another handle was writing.
C33_Witness ==
    \E h, g \in Handles :
        /\ h # g
        /\ hpc[h] = "closed" /\ hres[h] = "Busy" /\ modified[h] /\ touched[h]
        /\ metaLock = g /\ hpc[g] \in {"wm_tmp", "wm_dump"}

\* C34: a handle whose document was changed since it was loaded or
\* flushed, or whose document was never loaded nor flushed, has its
\* modified flag set.
NeverSynced(h) == hpc[h] = "open" /\ openedSt[h] = "none"

C34_DirtyWhenDifferent ==
    \A h \in Handles : (touched[h] \/ NeverSynced(h)) => modified[h]

\* C36: a release removes no lock file that another caller created, also
\* after the holder's own lock file was deleted, and never two callers are
\* inside the guarded block of the same lock path.
C36_ReleaseOnlyOwnFile ==
    /\ [][\A p \in Actors :
             (Leaves(p) /\ lockFile[dirfd[p]] \notin {p, Nobody}) =>
                 lockFile'[dirfd[p]] = lockFile[dirfd[p]]]_vars
    /\ [](Cardinality(Holders) <= 1)

\* C37: an ensureProfile that ends without a rebuild finds a profile that
\* was built from the text the manifest has now.
C37_FreshMeansCurrent ==
    [][(fCalls' # fCalls /\ fRes' = "fresh") => fProfV = fManV]_vars

\* C38: when every handle has set its own key and its close has flushed,
\* the metadata file holds the values all of them set.
C38_NoLostEdit ==
    (\A h \in Handles : hpc[h] = "closed" /\ hres[h] = "flushed" /\ edits[h] > 0) =>
        \A h \in Handles :
            /\ KeyOf(h) \in DOMAIN Parse(metaFile.lines)
            /\ Parse(metaFile.lines)[KeyOf(h)] = NewValue(KeyOf(h))

\* C39: no two creations initialise the same directory.
C39_DistinctDirectories ==
    \A c, d \in Creators :
        (c # d /\ rcInit[c] /\ rcInit[d]) => rcExt[c] # rcExt[d]

\* C40: on a local file system, after a grant to a named user the snapshot
\* of the path lists that user among the named users with the rights
\* granted, and does not list the owner there.
C40_NamedUserAttributed ==
    (/\ aclOp.kind = "set" /\ aclOp.res = "ok" /\ ~aclNfs
     /\ aclOp.target = "u" /\ aclOp.qualifier = NamedUser
     /\ ~aclOp.remove /\ ~aclOp.default) =>
        /\ \E u \in getPermissions(aclOp.path).aclUser :
              u[1] = NamedUser /\ u[2] = acl[aclOp.path][Entry("u", NamedUser)]
        /\ \A u \in getPermissions(aclOp.path).aclUser : u[1] # OwnerName

====
